---- MODULE Spec2Model ----
(***************************************************************************)
(* FinalPlayer (src/app.js): the persistent library (IndexedDB stores and  *)
(* their in-memory Maps), the import / edit / delete handlers split at     *)
(* their awaits, and the playback engine (queue, shuffle, repeat).         *)
(*                                                                         *)
(* A store request takes effect when it is issued (IndexedDB runs the      *)
(* requests on one object store in the order they were made); the handler  *)
(* that awaits it resumes in a later step, so other handlers run between.  *)
(* A failed request leaves the store as it was and the awaiting handler    *)
(* sees the rejection when it resumes (field err).                         *)
(***************************************************************************)
EXTENDS Integers, Sequences, FiniteSets, TLC

\* ------------------------------------------------------------------ bounds
MaxIds == 4          \* calls of generateId() in one run
MaxFailures == 1     \* rejected store requests in one run
MaxOps == 3          \* library handlers the user starts in one run
MaxPlays == 5        \* playback handlers the user starts in one run

\* ------------------------------------------------------------------ values
NULL == <<"null", 0>>
AssetId(trackId) == <<"asset", trackId>>
CoverId(ownerId) == <<"cover", ownerId>>
GenAssetId(id) == <<"gen", id>>

UnknownArtist == "Artista Desconocido"
UnknownAlbum == "Álbum Desconocido"

\* String.prototype.toLowerCase on the names the model uses.
ToLowerCase(s) ==
    CASE s = "B" -> "b"
      [] s = "C" -> "c"
      [] s = "D" -> "d"
      [] s = UnknownArtist -> "artista desconocido"
      [] s = UnknownAlbum -> "álbum desconocido"
      [] OTHER -> s

\* `${album}|${artist}`.toLowerCase(); no name of the model contains "|", so
\* the pair stands for the joined string.
AlbumKey(name, artist) == <<ToLowerCase(name), ToLowerCase(artist)>>

\* The files a user can hand to importFiles: declared type, whether
\* mmb.parseBlob succeeds and what it yields, whether the throwaway media
\* element of getMediaDuration loads.
Files ==
    { [type |-> "audio", parseOk |-> TRUE, picture |-> TRUE, artist |-> "B",
       album |-> "C", no |-> 2, durOk |-> TRUE],
      [type |-> "audio", parseOk |-> TRUE, picture |-> FALSE, artist |-> "b",
       album |-> "c", no |-> 1, durOk |-> TRUE],
      [type |-> "video", parseOk |-> FALSE, picture |-> FALSE, artist |-> "",
       album |-> "", no |-> 0, durOk |-> TRUE],
      [type |-> "audio", parseOk |-> FALSE, picture |-> FALSE, artist |-> "",
       album |-> "", no |-> 0, durOk |-> FALSE],
      [type |-> "text", parseOk |-> FALSE, picture |-> FALSE, artist |-> "",
       album |-> "", no |-> 0, durOk |-> FALSE] }

\* The FileLists of one import: one file, or a file of another type first.
Batches ==
    { <<f>> : f \in Files }
    \cup { <<g, f>> : g \in {x \in Files : x.type = "text"},
                      f \in {x \in Files : x.parseOk /\ ~x.picture} }

\* Form contents of the metadata modal.
MetaEdits ==
    { [artist |-> "b", album |-> "d", trackNumber |-> 1, cover |-> FALSE],
      [artist |-> "B", album |-> "C", trackNumber |-> 1, cover |-> TRUE] }

PlaylistNames == {"mix", " "}

\* ------------------------------------------------------------------ helpers
Range(s) == { s[i] : i \in 1..Len(s) }
IncludesNone(s, x) == FALSE
Includes(s, x) == x \in Range(s)
Push(s, x) == Append(s, x)
Filter(s, x) == SelectSeq(s, LAMBDA y : y # x)
MapSet(f, k, v) == [x \in (DOMAIN f) \cup {k} |-> IF x = k THEN v ELSE f[x]]
MapDelete(f, k) == [x \in (DOMAIN f) \ {k} |-> f[x]]
Min(S) == CHOOSE x \in S : \A y \in S : x <= y
EmptyMap == [x \in {} |-> 0]

\* Array.prototype.indexOf, 0-based, -1 when absent.
IndexOf(s, x) ==
    IF Includes(s, x) THEN Min({i \in 1..Len(s) : s[i] = x}) - 1 ELSE -1

\* The leading parts of a sequence.
Heads(s) == { SubSeq(s, 1, n) : n \in 0..Len(s) }

\* The orders generateShuffledQueue can produce: sorting on independent
\* Math.random() keys yields any permutation of the queue.
Shuffles(s) ==
    { [i \in 1..Len(s) |-> s[p[i]]] :
        p \in { q \in [1..Len(s) -> 1..Len(s)] :
                  \A i, j \in 1..Len(s) : q[i] = q[j] => i = j } }

NoTrack ==
    [id |-> 0, artist |-> "", album |-> "", trackNumber |-> 0,
     fileAssetId |-> NULL, coverAssetId |-> NULL]

\* The equalizer: createEQNodes makes ten bands (lines 208-210).
Bands == 10
Flat == [i \in 1..Bands |-> 0]

\* The knobs the model drags and the gains it drags them to (angleToGain
\* yields -12..12), and the volume slider's values, in hundredths.
Knobs == {3, 10}
Gains == {4, -12}
SliderValues == {0, 42, 100}
NoManual == [i \in Knobs |-> [set |-> FALSE, gain |-> 0]]
NoMutes == [calls |-> 0, gain |-> 0, volume |-> 0, isMuted |-> FALSE]

\* The constructor's settings, lines 32-48 (volume in hundredths).
DefaultVolume == 70
DefaultSettings ==
    [backgroundAssetId |-> NULL, lastTrackId |-> 0,
     volume |-> DefaultVolume, isMuted |-> FALSE, lastVolume |-> DefaultVolume,
     eqPreset |-> "flat", customEq |-> Flat]

\* ------------------------------------------------------------------ state
VARIABLES
    library,        \* keys of this.library
    trackObj,       \* the Track objects, by id (those of library, and one a
                    \* running saveMetadata still holds after its deletion)
    albums,         \* this.albums: id -> Album object
    playlists,      \* this.playlists: id -> Playlist object
    assets,         \* keys of this.assets
    settings,       \* this.settings (the fields the handlers below use)
    dbTracks, dbAssets, dbAlbums, dbPlaylists, dbSettings,  \* IndexedDB stores
    nextId,         \* generateId(): the next fresh id
    failures,       \* store requests rejected so far
    ops,            \* handlers started so far
    imp,            \* the running importFiles / processFile
    del,            \* the running deleteTrack
    sm,             \* the running saveMetadata
    pending,        \* the store requests handlers are suspended on, as issued
    raced,          \* observer: the id deleteTrack was invoked on while
                    \* saveMetadata for it was suspended (0: none)
    queue, shuffledQueue, currentIndex, currentTrackId, isPlaying, shuffle,
    repeat,
    audioSrc,       \* audioElement.src: the asset it was created from
    onloadedmetadata, \* the handler loadTrack installed, until the event fires
    plays,          \* playback handlers started so far
    cycle,          \* observer of a run of playNext calls
    mediaPlaying,   \* the media element is playing its source (not paused,
                    \* not ended, no new source being loaded)
    gainNode,       \* gainNode.gain.value, in hundredths
    eqNodes,        \* eqNodes[i].gain.value, the ten bands
    drag,           \* the knob being dragged (its isDragging), 0: none
    manual,         \* observer: the gain each knob was last dragged to
    mutes,          \* observer: the toggleMute calls in a row, and the volume
                    \* state before the first of them
    audioContext,   \* this.audioContext: its state, the track ids of the
                    \* play(trackId) calls that awaited its resume() (line
                    \* 375), as called, and how many of them have gone on
    ended,          \* observer: what handleTrackEnd did when it last ran
    urls            \* observer, while switched on: the object URLs created and
                    \* not revoked (media: of the media element's source;
                    \* covers: of track covers) and the cover URLs the tracks
                    \* grid, the queue list, the player's cover image and the
                    \* media session's artwork were last given

libVars ==
    <<library, trackObj, albums, playlists, assets, settings, dbTracks,
      dbAssets, dbAlbums, dbPlaylists, dbSettings, nextId, failures>>
taskVars == <<imp, del, sm, pending, raced, ops>>
playVars ==
    <<queue, shuffledQueue, currentIndex, currentTrackId, isPlaying, shuffle,
      repeat, audioSrc, mediaPlaying, onloadedmetadata, plays, cycle>>
audioVars == <<gainNode, eqNodes, drag, manual, mutes, audioContext>>
vars == <<libVars, taskVars, playVars, audioVars, ended, urls>>

ImpIdle ==
    [pc |-> "idle", files |-> <<>>, i |-> 0, fb |-> FALSE, err |-> FALSE,
     trackId |-> 0, track |-> NoTrack, successCount |-> 0,
     libBefore |-> {}, dbBefore |-> {}]
DelIdle == [pc |-> "idle", trackId |-> 0, err |-> FALSE, current |-> FALSE]
SmIdle == [pc |-> "idle", trackId |-> 0, err |-> FALSE, cover |-> FALSE]
NoHandler == [set |-> FALSE, shouldPlay |-> FALSE]
NoCycle == [on |-> FALSE, index |-> 0, trackId |-> 0, aligned |-> FALSE, calls |-> 0]
\* The context the page creates at line 189 is running where the browser lets
\* audio start without a gesture, and suspended where it does not.
Running == [state |-> "running", resumes |-> <<>>, settled |-> 0]
Suspended == [state |-> "suspended", resumes |-> <<>>, settled |-> 0]
NoUrls ==
    [on |-> FALSE, media |-> 0, covers |-> 0, grid |-> 0, queue |-> 0, player |-> 0, session |-> 0]

\* The constructor's field values (lines 5-52) with an empty database.
Init ==
    /\ library = {}
    /\ trackObj = EmptyMap
    /\ albums = EmptyMap
    /\ playlists = EmptyMap
    /\ assets = {}
    /\ settings = DefaultSettings
    /\ dbTracks = EmptyMap
    /\ dbAssets = {}
    /\ dbAlbums = EmptyMap
    /\ dbPlaylists = EmptyMap
    /\ dbSettings = DefaultSettings
    /\ nextId = 1
    /\ failures = 0
    /\ ops = 0
    /\ imp = ImpIdle
    /\ del = DelIdle
    /\ sm = SmIdle
    /\ pending = <<>>
    /\ raced = 0
    /\ queue = <<>>
    /\ shuffledQueue = <<>>
    /\ currentIndex = -1
    /\ currentTrackId = 0
    /\ isPlaying = FALSE
    /\ shuffle = FALSE
    /\ repeat = "none"
    /\ audioSrc = NULL
    /\ onloadedmetadata = NoHandler
    /\ plays = 0
    /\ cycle = NoCycle
    /\ mediaPlaying = FALSE
    /\ gainNode = DefaultVolume
    /\ eqNodes = Flat
    /\ drag = 0
    /\ manual = NoManual
    /\ mutes = NoMutes
    /\ audioContext = Running
    /\ ended = "no"
    /\ urls = NoUrls

\* ------------------------------------------------------------------ store
\* A request may be rejected (StorageIOError) while the budget lasts.
MayFail(ok) == ok \/ failures < MaxFailures
Outcome(ok) == failures' = IF ok THEN failures ELSE failures + 1

\* The user starts a handler; the other steps are resumptions of handlers.
Started == ops < MaxOps /\ ops' = ops + 1

\* Requests on one object store settle in the order they were made, so a
\* handler resumes only when no older request on its store is still awaited.
CanResume(task) ==
    \A i \in 1..Len(pending) :
        pending[i].task = task => \A j \in 1..(i - 1) : pending[j].store # pending[i].store
Resumed(task) == SelectSeq(pending, LAMBDA e : e.task # task)
Await(task, store) == pending' = Append(Resumed(task), [task |-> task, store |-> store])
NoAwait(task) == pending' = Resumed(task)

\* ------------------------------------------------------------------ object URLs
\* The test before each URL.createObjectURL of a track's cover (lines 539,
\* 585, 1708, 1744): the track has a cover id and the index holds the asset.
HasCover(track, held) == track.coverAssetId # NULL /\ track.coverAssetId \in held

\* createTrackElement for every track of updateLibraryDisplay (lines 562-576,
\* no filter) and the items of updateQueueDisplay (lines 1695-1726): the
\* number of cover URLs one rendering creates.
GridCovers(lib, tracks, held) == Cardinality({ id \in lib : HasCover(tracks[id], held) })
QueueCovers(order, lib, tracks, held) ==
    Cardinality({ i \in 1..Len(order) : order[i] \in lib /\ HasCover(tracks[order[i]], held) })

\* A rendering empties its container (innerHTML = '', lines 564 and 1697) or
\* overwrites the image's src (line 540) or the session's metadata (line
\* 1747), and creates its URLs; none of them revokes a URL.
renderGrid(u, n) == [u EXCEPT !.covers = @ + n, !.grid = n]
renderQueue(u, n) == [u EXCEPT !.covers = @ + n, !.queue = n]
renderPlayer(u, n) == [u EXCEPT !.covers = @ + n, !.player = n]
renderSession(u, n) == [u EXCEPT !.covers = @ + n, !.session = n]

\* loadTrack, lines 417-422: a URL for the new source, the URL of the
\* source it replaces revoked.
replaceSrc(u, src) == [u EXCEPT !.media = (IF src # NULL THEN @ - 1 ELSE @) + 1]

\* play(trackId) for a track the index holds with its file: loadTrack runs.
Loads(trackId) == trackId \in library /\ trackObj[trackId].fileAssetId \in assets
played(u, trackId) == IF Loads(trackId) THEN replaceSrc(u, audioSrc) ELSE u

Observed(u) == urls' = IF urls.on THEN u ELSE urls

\* ------------------------------------------------------------------ import
IsValidFile(f) == f.type \in {"audio", "video"}
CurFile == imp.files[imp.i]

\* The track object of the structured path (lines 272-282) and of the
\* fallback path (lines 300-310).
MetaTrack(f, id, cover) ==
    [id |-> id,
     artist |-> IF f.artist = "" THEN UnknownArtist ELSE f.artist,
     album |-> IF f.album = "" THEN UnknownAlbum ELSE f.album,
     trackNumber |-> IF f.no = 0 THEN 1 ELSE f.no,
     fileAssetId |-> AssetId(id), coverAssetId |-> cover]
FallbackTrack(id) ==
    [id |-> id, artist |-> UnknownArtist, album |-> UnknownAlbum,
     trackNumber |-> 1, fileAssetId |-> AssetId(id), coverAssetId |-> NULL]

\* updateAlbumAndArtist up to its await: the Album found (the first of the
\* Map with the track's key) or created, with the track's id appended.
AlbumMatch(track) ==
    { a \in DOMAIN albums :
        AlbumKey(albums[a].name, albums[a].artist) = AlbumKey(track.album, track.artist) }
FoundOrNewAlbum(track) ==
    IF AlbumMatch(track) # {}
    THEN albums[Min(AlbumMatch(track))]
    ELSE [id |-> nextId, name |-> track.album, artist |-> track.artist,
          trackIds |-> <<>>, coverAssetId |-> track.coverAssetId]
updateAlbumAndArtist(track) ==
    LET album == FoundOrNewAlbum(track) IN
    IF ~Includes(album.trackIds, track.id)
    THEN [album EXCEPT
            !.trackIds = Push(@, track.id),
            !.coverAssetId =
                IF @ = NULL /\ track.coverAssetId # NULL THEN track.coverAssetId ELSE @]
    ELSE album

\* importFiles ends with updateLibraryDisplay, line 250.
ImportObserved ==
    Observed(IF imp.pc # "idle" /\ imp'.pc = "idle"
             THEN renderGrid(urls, GridCovers(library', trackObj', assets'))
             ELSE urls)

\* processFile returns: importFiles goes on with the next file, or ends.
Return(success) ==
    imp' = IF imp.i < Len(imp.files)
           THEN [ImpIdle EXCEPT !.pc = "parse", !.files = imp.files, !.i = imp.i + 1,
                                !.successCount = imp.successCount + (IF success THEN 1 ELSE 0),
                                !.libBefore = imp.libBefore, !.dbBefore = imp.dbBefore]
           ELSE ImpIdle

\* A rejected await inside a try block: the structured path falls back (line
\* 293), the fallback path gives the file up (line 320).
Caught ==
    IF imp.fb
    THEN Return(FALSE)
    ELSE imp' = [imp EXCEPT !.pc = "duration", !.fb = TRUE, !.err = FALSE,
                            !.trackId = 0, !.track = NoTrack]

\* importFiles(files) up to the first await of processFile (mmb.parseBlob).
\* With no audio/video file it returns at line 240 and changes nothing.
\* libBefore and dbBefore observe the tracks there were when it started.
ImportFiles(files) ==
    /\ Started
    /\ imp.pc = "idle"
    /\ SelectSeq(files, IsValidFile) # <<>>
    /\ imp' = [ImpIdle EXCEPT !.pc = "parse", !.files = SelectSeq(files, IsValidFile), !.i = 1,
                              !.libBefore = library, !.dbBefore = DOMAIN dbTracks]
    /\ UNCHANGED <<libVars, del, sm, pending, raced, playVars>>
    /\ UNCHANGED <<audioVars, ended, urls>>

\* parseBlob settled: lines 257-270 (cover) or 257-286 (no cover).
ParseDone ==
    /\ imp.pc = "parse"
    /\ IF ~CurFile.parseOk
       THEN /\ Caught
            /\ UNCHANGED <<libVars, pending>>
       ELSE /\ nextId <= MaxIds
            /\ nextId' = nextId + 1
            /\ \E ok \in BOOLEAN :
                /\ MayFail(ok)
                /\ Outcome(ok)
                /\ IF CurFile.picture
                   THEN /\ dbAssets' = IF ok THEN dbAssets \cup {CoverId(nextId)} ELSE dbAssets
                        /\ imp' = [imp EXCEPT !.pc = "coverSaved", !.trackId = nextId, !.err = ~ok]
                        /\ Await("imp", "assets")
                        /\ UNCHANGED dbTracks
                   ELSE /\ dbTracks' = IF ok THEN MapSet(dbTracks, nextId, MetaTrack(CurFile, nextId, NULL))
                                       ELSE dbTracks
                        /\ imp' = [imp EXCEPT !.pc = "trackSaved", !.trackId = nextId,
                                              !.track = MetaTrack(CurFile, nextId, NULL), !.err = ~ok]
                        /\ Await("imp", "tracks")
                        /\ UNCHANGED dbAssets
            /\ UNCHANGED <<library, trackObj, albums, playlists, assets, settings,
                           dbAlbums, dbPlaylists, dbSettings>>
    /\ UNCHANGED <<del, sm, raced, ops, playVars>>
    /\ UNCHANGED <<audioVars, ended>>
    /\ ImportObserved

\* The cover asset's put settled: lines 269-286.
CoverSaved ==
    /\ imp.pc = "coverSaved"
    /\ CanResume("imp")
    /\ IF imp.err
       THEN /\ Caught
            /\ NoAwait("imp")
            /\ UNCHANGED libVars
       ELSE /\ assets' = assets \cup {CoverId(imp.trackId)}
            /\ \E ok \in BOOLEAN :
                LET track == MetaTrack(CurFile, imp.trackId, CoverId(imp.trackId)) IN
                /\ MayFail(ok)
                /\ Outcome(ok)
                /\ dbTracks' = IF ok THEN MapSet(dbTracks, track.id, track) ELSE dbTracks
                /\ imp' = [imp EXCEPT !.pc = "trackSaved", !.track = track, !.err = ~ok]
            /\ Await("imp", "tracks")
            /\ UNCHANGED <<library, trackObj, albums, playlists, settings, dbAssets,
                           dbAlbums, dbPlaylists, dbSettings, nextId>>
    /\ UNCHANGED <<del, sm, raced, ops, playVars>>
    /\ UNCHANGED <<audioVars, ended>>
    /\ ImportObserved

\* The track's put settled: line 287 (315 in the fallback).
TrackSaved ==
    /\ imp.pc = "trackSaved"
    /\ CanResume("imp")
    /\ IF imp.err
       THEN /\ Caught
            /\ NoAwait("imp")
            /\ UNCHANGED libVars
       ELSE /\ \E ok \in BOOLEAN :
                /\ MayFail(ok)
                /\ Outcome(ok)
                /\ dbAssets' = IF ok THEN dbAssets \cup {imp.track.fileAssetId} ELSE dbAssets
                /\ imp' = [imp EXCEPT !.pc = "assetSaved", !.err = ~ok]
            /\ Await("imp", "assets")
            /\ UNCHANGED <<library, trackObj, albums, playlists, assets, settings,
                           dbTracks, dbAlbums, dbPlaylists, dbSettings, nextId>>
    /\ UNCHANGED <<del, sm, raced, ops, playVars>>
    /\ UNCHANGED <<audioVars, ended>>
    /\ ImportObserved

\* The file asset's put settled: lines 288-290 (316-318) and
\* updateAlbumAndArtist up to its put.
AssetSaved ==
    /\ imp.pc = "assetSaved"
    /\ CanResume("imp")
    /\ IF imp.err
       THEN /\ Caught
            /\ NoAwait("imp")
            /\ UNCHANGED libVars
       ELSE /\ AlbumMatch(imp.track) # {} \/ nextId <= MaxIds
            /\ nextId' = IF AlbumMatch(imp.track) # {} THEN nextId ELSE nextId + 1
            /\ library' = library \cup {imp.track.id}
            /\ trackObj' = MapSet(trackObj, imp.track.id, imp.track)
            /\ assets' = assets \cup {imp.track.fileAssetId}
            /\ \E ok \in BOOLEAN :
                LET album == updateAlbumAndArtist(imp.track) IN
                /\ MayFail(ok)
                /\ Outcome(ok)
                /\ albums' = MapSet(albums, album.id, album)
                /\ dbAlbums' = IF ok THEN MapSet(dbAlbums, album.id, album) ELSE dbAlbums
                /\ imp' = [imp EXCEPT !.pc = "albumSaved", !.err = ~ok]
            /\ Await("imp", "albums")
            /\ UNCHANGED <<playlists, settings, dbTracks, dbAssets, dbPlaylists, dbSettings>>
    /\ UNCHANGED <<del, sm, raced, ops, playVars>>
    /\ UNCHANGED <<audioVars, ended>>
    /\ ImportObserved

\* The album's put settled: processFile returns true (line 291 or 319).
AlbumSaved ==
    /\ imp.pc = "albumSaved"
    /\ CanResume("imp")
    /\ IF imp.err THEN Caught ELSE Return(TRUE)
    /\ NoAwait("imp")
    /\ UNCHANGED <<libVars, del, sm, raced, ops, playVars>>
    /\ UNCHANGED <<audioVars, ended>>
    /\ ImportObserved

\* getMediaDuration settled: lines 296-314.
DurationDone ==
    /\ imp.pc = "duration"
    /\ IF ~CurFile.durOk
       THEN /\ Return(FALSE)
            /\ UNCHANGED <<libVars, pending>>
       ELSE /\ nextId <= MaxIds
            /\ nextId' = nextId + 1
            /\ \E ok \in BOOLEAN :
                /\ MayFail(ok)
                /\ Outcome(ok)
                /\ dbTracks' = IF ok THEN MapSet(dbTracks, nextId, FallbackTrack(nextId)) ELSE dbTracks
                /\ imp' = [imp EXCEPT !.pc = "trackSaved", !.trackId = nextId,
                                      !.track = FallbackTrack(nextId), !.err = ~ok]
            /\ Await("imp", "tracks")
            /\ UNCHANGED <<library, trackObj, albums, playlists, assets, settings,
                           dbAssets, dbAlbums, dbPlaylists, dbSettings>>
    /\ UNCHANGED <<del, sm, raced, ops, playVars>>
    /\ UNCHANGED <<audioVars, ended>>
    /\ ImportObserved

\* What a caller of importFiles receives. The function has no return
\* statement (lines 236-252): its promise resolves to undefined whatever was
\* counted; successCount only reaches the toast of line 251.
importFilesResult(successCount, totalCount) ==
    [defined |-> FALSE, importedCount |-> 0, totalCount |-> 0]

Import ==
    \/ \E files \in Batches : ImportFiles(files)
    \/ ParseDone
    \/ CoverSaved
    \/ TrackSaved
    \/ AssetSaved
    \/ AlbumSaved
    \/ DurationDone

\* ------------------------------------------------------------------ deleteTrack
\* The Track object deleteTrack holds a reference to.
DelTrack == trackObj[del.trackId]

\* A Track object stays reachable after library.delete only through a
\* saveMetadata suspended on it.
SmHolds(id) == sm.pc \in {"coverSaved", "trackSaved"} /\ sm.trackId = id

\* Lines 1679-1684: the in-memory part of the cascade.
DeleteFromIndex ==
    /\ library' = library \ {del.trackId}
    /\ assets' = assets \ {DelTrack.fileAssetId, DelTrack.coverAssetId}
    /\ trackObj' = IF SmHolds(del.trackId) THEN trackObj ELSE MapDelete(trackObj, del.trackId)
    /\ queue' = Filter(queue, del.trackId)
    /\ shuffledQueue' \in Shuffles(queue')
    /\ del' = [del EXCEPT !.pc = "display", !.err = FALSE]
    /\ NoAwait("del")
    /\ UNCHANGED <<albums, playlists, settings, dbTracks, dbAssets, dbAlbums, dbPlaylists,
                   dbSettings, nextId, failures, raced, currentIndex, currentTrackId,
                   isPlaying, shuffle, repeat, audioSrc, mediaPlaying, onloadedmetadata, plays, cycle>>

\* deleteTrack(trackId), lines 1672-1675, up to the first await; current
\* observes whether the track was the current one.
DeleteTrack(trackId) ==
    /\ Started
    /\ del.pc = "idle"
    /\ trackId \in library
    /\ \E ok \in BOOLEAN :
        /\ MayFail(ok)
        /\ Outcome(ok)
        /\ dbTracks' = IF ok THEN MapDelete(dbTracks, trackId) ELSE dbTracks
        /\ del' = [pc |-> "trackDeleted", trackId |-> trackId, err |-> ~ok,
                   current |-> (currentTrackId = trackId)]
    /\ Await("del", "tracks")
    /\ raced' = IF SmHolds(trackId) THEN trackId ELSE raced
    /\ UNCHANGED <<library, trackObj, albums, playlists, assets, settings, dbAssets,
                   dbAlbums, dbPlaylists, dbSettings, nextId, imp, sm, playVars>>
    /\ UNCHANGED <<audioVars, ended, urls>>

\* A rejected delete: deleteTrack throws out of its await and ends.
DelThrows ==
    /\ del' = DelIdle
    /\ NoAwait("del")
    /\ raced' = IF raced = del.trackId THEN 0 ELSE raced
    /\ UNCHANGED <<libVars, playVars>>
    /\ UNCHANGED <<audioVars, ended, urls>>

\* The request a resumed deleteTrack makes next (line 1676 or 1677).
DelRequest(assetId, pc) ==
    /\ \E ok \in BOOLEAN :
        /\ MayFail(ok)
        /\ Outcome(ok)
        /\ dbAssets' = IF ok THEN dbAssets \ {assetId} ELSE dbAssets
        /\ del' = [del EXCEPT !.pc = pc, !.err = ~ok]
    /\ Await("del", "assets")
    /\ UNCHANGED <<library, trackObj, albums, playlists, assets, settings, dbTracks,
                   dbAlbums, dbPlaylists, dbSettings, nextId, raced, playVars>>

\* Line 1676.
DelTrackDeleted ==
    /\ del.pc = "trackDeleted"
    /\ CanResume("del")
    /\ IF del.err THEN DelThrows ELSE DelRequest(DelTrack.fileAssetId, "fileDeleted")
    /\ UNCHANGED <<imp, sm, ops>>
    /\ UNCHANGED <<audioVars, ended, urls>>

\* Line 1677, or lines 1679-1686 for a track without cover.
DelFileDeleted ==
    /\ del.pc = "fileDeleted"
    /\ CanResume("del")
    /\ IF del.err
       THEN DelThrows
       ELSE IF DelTrack.coverAssetId # NULL
            THEN DelRequest(DelTrack.coverAssetId, "coverDeleted")
            ELSE DeleteFromIndex
    /\ UNCHANGED <<imp, sm, ops>>
    /\ UNCHANGED <<audioVars, ended, urls>>

\* Lines 1679-1686 for a track with cover.
DelCoverDeleted ==
    /\ del.pc = "coverDeleted"
    /\ CanResume("del")
    /\ IF del.err THEN DelThrows ELSE DeleteFromIndex
    /\ UNCHANGED <<imp, sm, ops>>
    /\ UNCHANGED <<audioVars, ended, urls>>

\* updateLibraryDisplay settled: lines 1687-1688, deleteTrack returns.
DelDone ==
    /\ del.pc = "display"
    /\ del' = DelIdle
    /\ UNCHANGED <<libVars, imp, sm, pending, raced, ops, playVars>>
    /\ UNCHANGED <<audioVars, ended>>
    /\ Observed(renderQueue(renderGrid(urls, GridCovers(library, trackObj, assets)),
                            QueueCovers(IF shuffle THEN shuffledQueue ELSE queue,
                                        library, trackObj, assets)))

Delete ==
    \/ \E trackId \in library : DeleteTrack(trackId)
    \/ DelTrackDeleted
    \/ DelFileDeleted
    \/ DelCoverDeleted
    \/ DelDone

\* ------------------------------------------------------------------ saveMetadata
SmTrack == trackObj[sm.trackId]
SmFileId == SmTrack.fileAssetId
\* Line 1651: the id the new cover is stored under.
SmCoverId == IF SmTrack.coverAssetId # NULL THEN SmTrack.coverAssetId ELSE CoverId(sm.trackId)

\* saveMetadata ends; a Track object no Map holds is dropped with it.
SmEnds ==
    /\ sm' = SmIdle
    /\ NoAwait("sm")
    /\ trackObj' = [id \in (DOMAIN trackObj) \cap library |-> trackObj[id]]

\* saveMetadata(), lines 1638-1653 (cover chosen) or 1638-1658, for the track
\* the modal was opened on and the form contents edit.
SaveMetadata(trackId, edit) ==
    /\ Started
    /\ sm.pc = "idle"
    /\ trackId \in library
    /\ LET track == [trackObj[trackId] EXCEPT !.artist = edit.artist, !.album = edit.album,
                                              !.trackNumber = edit.trackNumber]
       IN /\ trackObj' = [trackObj EXCEPT ![trackId] = track]
          /\ \E ok \in BOOLEAN :
              /\ MayFail(ok)
              /\ Outcome(ok)
              /\ IF edit.cover
                 THEN /\ dbAssets' = IF ok
                                     THEN dbAssets \cup {IF track.coverAssetId # NULL
                                                         THEN track.coverAssetId
                                                         ELSE CoverId(trackId)}
                                     ELSE dbAssets
                      /\ sm' = [pc |-> "coverSaved", trackId |-> trackId, err |-> ~ok, cover |-> TRUE]
                      /\ Await("sm", "assets")
                      /\ UNCHANGED dbTracks
                 ELSE /\ dbTracks' = IF ok THEN MapSet(dbTracks, trackId, track) ELSE dbTracks
                      /\ sm' = [pc |-> "trackSaved", trackId |-> trackId, err |-> ~ok, cover |-> FALSE]
                      /\ Await("sm", "tracks")
                      /\ UNCHANGED dbAssets
    /\ UNCHANGED <<library, albums, playlists, assets, settings, dbAlbums, dbPlaylists,
                   dbSettings, nextId, imp, del, raced, playVars>>
    /\ UNCHANGED <<audioVars, ended, urls>>

\* The cover's put settled: lines 1654-1658.
SmCoverSaved ==
    /\ sm.pc = "coverSaved"
    /\ CanResume("sm")
    /\ IF sm.err
       THEN /\ SmEnds
            /\ UNCHANGED <<library, albums, playlists, assets, settings, dbTracks, dbAssets,
                           dbAlbums, dbPlaylists, dbSettings, nextId, failures>>
       ELSE /\ assets' = assets \cup {SmCoverId}
            /\ trackObj' = [trackObj EXCEPT ![sm.trackId].coverAssetId = SmCoverId]
            /\ \E ok \in BOOLEAN :
                /\ MayFail(ok)
                /\ Outcome(ok)
                /\ dbTracks' = IF ok THEN MapSet(dbTracks, sm.trackId, trackObj'[sm.trackId])
                               ELSE dbTracks
                /\ sm' = [sm EXCEPT !.pc = "trackSaved", !.err = ~ok]
            /\ Await("sm", "tracks")
            /\ UNCHANGED <<library, albums, playlists, settings, dbAssets, dbAlbums,
                           dbPlaylists, dbSettings, nextId>>
    /\ UNCHANGED <<imp, del, raced, ops, playVars>>
    /\ UNCHANGED <<audioVars, ended, urls>>

\* The track's put settled: line 1659, then updateLibraryDisplay is awaited.
SmTrackSaved ==
    /\ sm.pc = "trackSaved"
    /\ CanResume("sm")
    /\ IF sm.err
       THEN /\ SmEnds
            /\ UNCHANGED library
       ELSE /\ library' = library \cup {sm.trackId}
            /\ sm' = [sm EXCEPT !.pc = "display"]
            /\ NoAwait("sm")
            /\ UNCHANGED trackObj
    /\ UNCHANGED <<albums, playlists, assets, settings, dbTracks, dbAssets, dbAlbums,
                   dbPlaylists, dbSettings, nextId, failures, imp, del, raced, ops, playVars>>
    /\ UNCHANGED <<audioVars, ended, urls>>

\* Lines 1662-1668: saveMetadata returns.
SmDone ==
    /\ sm.pc = "display"
    /\ sm' = SmIdle
    /\ UNCHANGED <<libVars, imp, del, pending, raced, ops, playVars>>
    /\ UNCHANGED <<audioVars, ended>>
    /\ LET shown == renderGrid(urls, GridCovers(library, trackObj, assets))
       IN Observed(IF currentTrackId = sm.trackId
                   THEN renderPlayer(shown, IF HasCover(SmTrack, assets) THEN 1 ELSE 0)
                   ELSE shown)

Metadata ==
    \/ \E trackId \in library, edit \in MetaEdits : SaveMetadata(trackId, edit)
    \/ SmCoverSaved
    \/ SmTrackSaved
    \/ SmDone

\* ------------------------------------------------------------------ playlists
\* String.prototype.trim on the names the model uses.
Trim(s) == IF s = " " THEN "" ELSE s

\* createPlaylist(), lines 1159-1175, for the name the prompt returned. A
\* blank name returns at line 1161 and changes nothing.
CreatePlaylist(name) ==
    /\ Started
    /\ name # "" /\ Trim(name) # ""
    /\ nextId <= MaxIds
    /\ nextId' = nextId + 1
    /\ \E ok \in BOOLEAN :
        LET playlist == [id |-> nextId, name |-> name, trackIds |-> <<>>, coverAssetId |-> NULL] IN
        /\ MayFail(ok)
        /\ Outcome(ok)
        /\ dbPlaylists' = IF ok THEN MapSet(dbPlaylists, nextId, playlist) ELSE dbPlaylists
        /\ playlists' = IF ok THEN MapSet(playlists, nextId, playlist) ELSE playlists
    /\ UNCHANGED <<library, trackObj, albums, assets, settings, dbTracks, dbAssets, dbAlbums,
                   dbSettings, imp, del, sm, pending, raced, playVars>>
    /\ UNCHANGED <<audioVars, ended, urls>>

\* addTrackToPlaylist(playlistId, trackId), lines 1463-1475, from the context
\* menu of a listed track; with the id already in the playlist only a toast.
AddTrackToPlaylist(playlistId, trackId) ==
    /\ Started
    /\ playlistId \in DOMAIN playlists
    /\ trackId \in library
    /\ ~Includes(playlists[playlistId].trackIds, trackId)
    /\ playlists' = [playlists EXCEPT ![playlistId].trackIds = Push(@, trackId)]
    /\ \E ok \in BOOLEAN :
        /\ MayFail(ok)
        /\ Outcome(ok)
        /\ dbPlaylists' = IF ok THEN MapSet(dbPlaylists, playlistId, playlists'[playlistId])
                          ELSE dbPlaylists
    /\ UNCHANGED <<library, trackObj, albums, assets, settings, dbTracks, dbAssets, dbAlbums,
                   dbSettings, nextId, imp, del, sm, pending, raced, playVars>>
    /\ UNCHANGED <<audioVars, ended, urls>>

\* deletePlaylist(playlistId), lines 1619-1628.
DeletePlaylist(playlistId) ==
    /\ Started
    /\ playlistId \in DOMAIN playlists
    /\ \E ok \in BOOLEAN :
        /\ MayFail(ok)
        /\ Outcome(ok)
        /\ dbPlaylists' = IF ok THEN MapDelete(dbPlaylists, playlistId) ELSE dbPlaylists
        /\ playlists' = IF ok THEN MapDelete(playlists, playlistId) ELSE playlists
    /\ UNCHANGED <<library, trackObj, albums, assets, settings, dbTracks, dbAssets, dbAlbums,
                   dbSettings, nextId, imp, del, sm, pending, raced, playVars>>
    /\ UNCHANGED <<audioVars, ended, urls>>

\* savePlaylistDetails(), lines 1518-1542, for the playlist the modal was
\* opened on, the name typed and whether a cover file was chosen. The put of
\* the cover asset (okAsset) and of the playlist (okList) may each be rejected.
SavePlaylistDetails(playlistId, name, cover) ==
    /\ Started
    /\ playlistId \in DOMAIN playlists
    /\ \E okAsset, okList \in BOOLEAN :
        LET coverAssetId == IF playlists[playlistId].coverAssetId # NULL
                            THEN playlists[playlistId].coverAssetId
                            ELSE CoverId(playlistId)
            stored == cover /\ okAsset
            playlist == [playlists[playlistId] EXCEPT
                           !.name = name,
                           !.coverAssetId = IF stored THEN coverAssetId ELSE @]
            reached == ~cover \/ okAsset    \* line 1536 is reached
        IN /\ cover \/ okAsset
           /\ reached \/ okList
           /\ MayFail(okAsset /\ okList)
           /\ Outcome(okAsset /\ okList)
           /\ playlists' = [playlists EXCEPT ![playlistId] = playlist]
           /\ dbAssets' = IF stored THEN dbAssets \cup {coverAssetId} ELSE dbAssets
           /\ assets' = IF stored THEN assets \cup {coverAssetId} ELSE assets
           /\ dbPlaylists' = IF reached /\ okList THEN MapSet(dbPlaylists, playlistId, playlist)
                             ELSE dbPlaylists
    /\ UNCHANGED <<library, trackObj, albums, settings, dbTracks, dbAlbums, dbSettings,
                   nextId, imp, del, sm, pending, raced, playVars>>
    /\ UNCHANGED <<audioVars, ended, urls>>

Playlists ==
    \/ \E name \in PlaylistNames : CreatePlaylist(name)
    \/ \E playlistId \in DOMAIN playlists, trackId \in library :
          AddTrackToPlaylist(playlistId, trackId)
    \/ \E playlistId \in DOMAIN playlists : DeletePlaylist(playlistId)
    \/ \E playlistId \in DOMAIN playlists, name \in PlaylistNames, cover \in BOOLEAN :
          SavePlaylistDetails(playlistId, name, cover)

\* ------------------------------------------------------------------ theme background
\* The change handler of bgFileInput, lines 785-797; saveSettings is not
\* awaited and may be rejected (okSettings).
BgFileChange ==
    /\ Started
    /\ nextId <= MaxIds
    /\ nextId' = nextId + 1
    /\ \E okAsset, okSettings \in BOOLEAN :
        /\ okAsset \/ okSettings
        /\ MayFail(okAsset /\ okSettings)
        /\ Outcome(okAsset /\ okSettings)
        /\ dbAssets' = IF okAsset THEN dbAssets \cup {GenAssetId(nextId)} ELSE dbAssets
        /\ assets' = IF okAsset THEN assets \cup {GenAssetId(nextId)} ELSE assets
        /\ settings' = IF okAsset THEN [settings EXCEPT !.backgroundAssetId = GenAssetId(nextId)]
                       ELSE settings
        /\ dbSettings' = IF okAsset /\ okSettings THEN settings' ELSE dbSettings
    /\ UNCHANGED <<library, trackObj, albums, playlists, dbTracks, dbAlbums, dbPlaylists,
                   imp, del, sm, pending, raced, playVars>>
    /\ UNCHANGED <<audioVars, ended, urls>>

\* The click handler of the gradient .bg-option, lines 770-778.
BgGradient ==
    /\ Started
    /\ settings.backgroundAssetId # NULL
    /\ settings' = [settings EXCEPT !.backgroundAssetId = NULL]
    /\ \E ok \in BOOLEAN :
        /\ MayFail(ok)
        /\ Outcome(ok)
        /\ dbSettings' = IF ok THEN settings' ELSE dbSettings
    /\ UNCHANGED <<library, trackObj, albums, playlists, assets, dbTracks, dbAssets, dbAlbums,
                   dbPlaylists, nextId, imp, del, sm, pending, raced, playVars>>
    /\ UNCHANGED <<audioVars, ended, urls>>

Theme == BgFileChange \/ BgGradient

\* ------------------------------------------------------------------ playback
\* The user starts a playback handler.
Played == plays < MaxPlays /\ plays' = plays + 1

ActiveQueue == IF shuffle THEN shuffledQueue ELSE queue
\* JavaScript's array[index]: 0 stands for undefined.
At(s, index) == IF index + 1 \in 1..Len(s) THEN s[index + 1] ELSE 0

\* loadTrack(track, shouldPlay), lines 411-433 (line 410 is with the caller),
\* called while the media element is playing or not (playing): a new source
\* stops it, a return at line 414 leaves it as it is.
loadTrackWhile(playing, track, shouldPlay) ==
    IF track.fileAssetId \notin assets
    THEN /\ mediaPlaying' = playing
         /\ UNCHANGED <<audioSrc, onloadedmetadata, settings, dbSettings, failures>>
    ELSE /\ audioSrc' = track.fileAssetId
         /\ mediaPlaying' = FALSE
         /\ onloadedmetadata' = [set |-> TRUE, shouldPlay |-> shouldPlay]
         /\ settings' = [settings EXCEPT !.lastTrackId = track.id]
         /\ \E ok \in BOOLEAN :
              /\ MayFail(ok)
              /\ Outcome(ok)
              /\ dbSettings' = IF ok THEN settings' ELSE dbSettings

loadTrack(track, shouldPlay) == loadTrackWhile(mediaPlaying, track, shouldPlay)

\* play(trackId) with a track id, lines 378-382 and loadTrack.
playWhile(playing, trackId) ==
    IF trackId \notin library
    THEN /\ mediaPlaying' = playing
         /\ UNCHANGED <<currentTrackId, audioSrc, onloadedmetadata, settings, dbSettings, failures>>
    ELSE /\ currentTrackId' = trackId
         /\ loadTrackWhile(playing, trackObj[trackId], TRUE)
play(trackId) == playWhile(mediaPlaying, trackId)

\* Array.from(this.library.keys()): the Map lists its keys as inserted, in
\* increasing id.
RECURSIVE SortedSeq(_)
SortedSeq(S) == IF S = {} THEN <<>> ELSE <<Min(S)>> \o SortedSeq(S \ {Min(S)})
LibraryKeys == SortedSeq(library)

\* The album click of createAlbumElement, lines 1309-1312: the album's ids
\* in increasing trackNumber (Array.prototype.sort is stable).
RECURSIVE SortByTrackNumber(_)
SortByTrackNumber(ids) ==
    IF ids = <<>> THEN <<>>
    ELSE LET least == Min({trackObj[ids[i]].trackNumber : i \in 1..Len(ids)})
             first == Min({i \in 1..Len(ids) : trackObj[ids[i]].trackNumber = least})
         IN <<ids[first]>> \o SortByTrackNumber(SubSeq(ids, 1, first - 1) \o SubSeq(ids, first + 1, Len(ids)))

\* updateArtistsDisplay, lines 1326-1332: the ids of the tracks of an artist.
ArtistTrackIds(artist) == SelectSeq(LibraryKeys, LAMBDA id : trackObj[id].artist = artist)

NoTask == imp.pc = "idle" /\ del.pc = "idle" /\ sm.pc = "idle"

\* The suspended play(trackId) whose resume() promise settles next: the
\* promises of one context settle in the order of the calls.
SettlesNewest(context) == Len(context.resumes) - context.settled
Settles(context) == context.settled + 1
Resuming(context) == context.settled < Len(context.resumes)

\* setQueueAndPlay(trackIds, startingTrackId), lines 456-468: with the context
\* suspended its play(trackToPlayId) stops at line 375 and goes on in
\* ResumeSettled, the queue list drawn (line 467) before that.
setQueueAndPlay(trackIds, startingTrackId) ==
    /\ Played
    /\ ~cycle.on
    /\ queue' = trackIds
    /\ \E order \in Shuffles(trackIds) :
        LET queueToSearch == IF shuffle THEN order ELSE trackIds
            startIndex == IndexOf(queueToSearch, startingTrackId)
        IN /\ shuffledQueue' = order
           /\ currentIndex' = IF startIndex # -1 THEN startIndex ELSE 0
           /\ IF audioContext.state = "suspended"
              THEN /\ audioContext' = [audioContext EXCEPT
                                          !.resumes = Append(@, At(queueToSearch, currentIndex'))]
                   /\ UNCHANGED <<currentTrackId, audioSrc, mediaPlaying, onloadedmetadata,
                                  settings, dbSettings, failures>>
                   /\ Observed(renderQueue(urls,
                                           QueueCovers(queueToSearch, library, trackObj, assets)))
              ELSE /\ play(At(queueToSearch, currentIndex'))
                   /\ audioContext' = audioContext
                   /\ Observed(renderQueue(played(urls, At(queueToSearch, currentIndex')),
                                           QueueCovers(queueToSearch, library, trackObj, assets)))
    /\ UNCHANGED <<library, trackObj, albums, playlists, assets, dbTracks, dbAssets, dbAlbums,
                   dbPlaylists, nextId, taskVars, isPlaying, shuffle, repeat, cycle>>
    /\ UNCHANGED <<gainNode, eqNodes, drag, manual, mutes, ended>>

\* The resume() a play(trackId) awaits at line 375 settles, the context now
\* running: the call goes on from line 378.
ResumeSettled ==
    /\ Resuming(audioContext)
    /\ audioContext' = [audioContext EXCEPT !.state = "running", !.settled = @ + 1]
    /\ LET trackId == audioContext.resumes[Settles(audioContext)]
       IN /\ play(trackId)
          /\ Observed(played(urls, trackId))
    /\ UNCHANGED <<library, trackObj, albums, playlists, assets, dbTracks, dbAssets, dbAlbums,
                   dbPlaylists, nextId, taskVars, queue, shuffledQueue, currentIndex, isPlaying,
                   shuffle, repeat, plays, cycle>>
    /\ UNCHANGED <<gainNode, eqNodes, drag, manual, mutes, ended>>

\* The click on a track of the library view, lines 597-599.
PlayFromLibrary(trackId) ==
    /\ trackId \in library
    /\ setQueueAndPlay(LibraryKeys, trackId)

\* playPlaylistBtn, lines 1260-1264.
PlayPlaylist(playlistId) ==
    /\ playlistId \in DOMAIN playlists
    /\ Len(playlists[playlistId].trackIds) > 0
    /\ setQueueAndPlay(playlists[playlistId].trackIds, playlists[playlistId].trackIds[1])

\* The click on a track listed in the playlist view, lines 1268-1273.
PlayFromPlaylist(playlistId, trackId) ==
    /\ playlistId \in DOMAIN playlists
    /\ Includes(playlists[playlistId].trackIds, trackId)
    /\ trackId \in library
    /\ setQueueAndPlay(playlists[playlistId].trackIds, trackId)

\* The click on an album, lines 1307-1315; with an id whose Track is gone the
\* comparator (or the last map) throws and nothing is played.
PlayAlbum(albumId) ==
    /\ albumId \in DOMAIN albums
    /\ Len(albums[albumId].trackIds) > 0
    /\ Range(albums[albumId].trackIds) \subseteq library
    /\ LET sortedTracks == SortByTrackNumber(albums[albumId].trackIds)
       IN setQueueAndPlay(sortedTracks, sortedTracks[1])

\* The click on an artist, lines 1362-1366.
PlayArtist(artist) ==
    /\ Len(ArtistTrackIds(artist)) > 0
    /\ setQueueAndPlay(ArtistTrackIds(artist), ArtistTrackIds(artist)[1])

\* handleContextAction 'addToQueue', lines 1439-1446.
AddToQueue(trackId) ==
    /\ Played
    /\ ~cycle.on
    /\ trackId \in library
    /\ ~Includes(queue, trackId)
    /\ queue' = Push(queue, trackId)
    /\ shuffledQueue' \in Shuffles(queue')
    /\ UNCHANGED <<libVars, taskVars, currentIndex, currentTrackId, isPlaying, shuffle,
                   repeat, audioSrc, mediaPlaying, onloadedmetadata, cycle>>
    /\ UNCHANGED <<audioVars, ended>>
    /\ Observed(renderQueue(urls, QueueCovers(queue', library, trackObj, assets)))

\* toggleShuffle, lines 845-850.
ToggleShuffle ==
    /\ Played
    /\ ~cycle.on
    /\ shuffle' = ~shuffle
    /\ shuffledQueue' \in Shuffles(queue)
    /\ UNCHANGED <<libVars, taskVars, queue, currentIndex, currentTrackId, isPlaying,
                   repeat, audioSrc, mediaPlaying, onloadedmetadata, cycle>>
    /\ UNCHANGED <<audioVars, ended, urls>>

\* A playNext that steps past the end of the queue instead of wrapping.
NextIndexNoWrap == currentIndex + 1

\* The position playNext moves to, line 439.
NextIndex == (currentIndex + 1) % Len(queue)

\* playNext(), lines 436-444; with an empty queue it returns at line 437.
playNextWhile(playing) ==
    IF Len(queue) = 0
    THEN /\ mediaPlaying' = playing
         /\ UNCHANGED <<currentIndex, currentTrackId, audioSrc, onloadedmetadata, settings,
                        dbSettings, failures>>
    ELSE /\ currentIndex' = NextIndex
         /\ playWhile(playing, At(ActiveQueue, currentIndex'))

\* The click on nextBtn, line 646.
PlayNext ==
    /\ Played
    /\ Len(queue) # 0
    /\ cycle.on => cycle.calls < Len(queue)
    /\ playNextWhile(mediaPlaying)
    /\ cycle' = IF cycle.on THEN [cycle EXCEPT !.calls = @ + 1] ELSE cycle
    /\ UNCHANGED <<library, trackObj, albums, playlists, assets, dbTracks, dbAssets, dbAlbums,
                   dbPlaylists, nextId, taskVars, queue, shuffledQueue, isPlaying, shuffle, repeat>>
    /\ UNCHANGED <<audioVars, ended>>
    /\ Observed(played(urls, At(ActiveQueue, currentIndex')))

\* playPrevious(), lines 446-454.
PlayPrevious ==
    /\ Played
    /\ ~cycle.on
    /\ Len(queue) # 0
    /\ currentIndex' = (currentIndex - 1 + Len(queue)) % Len(queue)
    /\ play(At(ActiveQueue, currentIndex'))
    /\ UNCHANGED <<library, trackObj, albums, playlists, assets, dbTracks, dbAssets, dbAlbums,
                   dbPlaylists, nextId, taskVars, queue, shuffledQueue, isPlaying, shuffle,
                   repeat, cycle>>
    /\ UNCHANGED <<audioVars, ended>>
    /\ Observed(played(urls, At(ActiveQueue, currentIndex')))

\* The media element's loadedmetadata event runs the handler of lines
\* 424-430; play() without id (lines 383-397) sets isPlaying by whether
\* audioElement.play() resolves.
\* The handler's track is the one the source was loaded for; its cover is
\* shown by updatePlayerDisplay and updateMediaSessionMetadata if held.
SourceCover ==
    IF \E id \in library : trackObj[id].fileAssetId = audioSrc /\ HasCover(trackObj[id], assets)
    THEN 1 ELSE 0
LoadedMetadata ==
    /\ onloadedmetadata.set
    /\ onloadedmetadata' = NoHandler
    /\ IF onloadedmetadata.shouldPlay /\ currentTrackId # 0
       THEN isPlaying' \in BOOLEAN /\ mediaPlaying' = isPlaying'
       ELSE UNCHANGED <<isPlaying, mediaPlaying>>
    /\ UNCHANGED <<libVars, taskVars, queue, shuffledQueue, currentIndex, currentTrackId,
                   shuffle, repeat, audioSrc, plays, cycle>>
    /\ UNCHANGED <<audioVars, ended>>
    /\ Observed(renderSession(renderPlayer(urls, SourceCover), SourceCover))

\* pause(), lines 400-407, from playPauseBtn while isPlaying.
Pause ==
    /\ Played
    /\ ~cycle.on
    /\ isPlaying
    /\ isPlaying' = FALSE
    /\ mediaPlaying' = FALSE
    /\ UNCHANGED <<libVars, taskVars, queue, shuffledQueue, currentIndex, currentTrackId,
                   shuffle, repeat, audioSrc, onloadedmetadata, cycle>>
    /\ UNCHANGED <<audioVars, ended, urls>>

\* A run of playNext calls with nothing between them is observed: the
\* position and track it starts from, and whether the track is the one at
\* that position of the active order.
Playable(id) == id \in library /\ trackObj[id].fileAssetId \in assets
BeginCycle ==
    /\ ~cycle.on
    /\ NoTask
    /\ Len(queue) # 0
    /\ \A id \in Range(queue) : Playable(id)
    /\ currentIndex \in 0..(Len(queue) - 1)
    /\ cycle' = [on |-> TRUE, index |-> currentIndex, trackId |-> currentTrackId,
                 aligned |-> (At(ActiveQueue, currentIndex) = currentTrackId), calls |-> 0]
    /\ UNCHANGED <<libVars, taskVars, queue, shuffledQueue, currentIndex, currentTrackId,
                   isPlaying, shuffle, repeat, audioSrc, mediaPlaying, onloadedmetadata, plays>>
    /\ UNCHANGED <<audioVars, ended, urls>>
EndCycle ==
    /\ cycle.on
    /\ cycle.calls = Len(queue)
    /\ cycle' = NoCycle
    /\ UNCHANGED <<libVars, taskVars, queue, shuffledQueue, currentIndex, currentTrackId,
                   isPlaying, shuffle, repeat, audioSrc, mediaPlaying, onloadedmetadata, plays>>
    /\ UNCHANGED <<audioVars, ended, urls>>

Playback ==
    \/ \E trackId \in library : PlayFromLibrary(trackId)
    \/ \E playlistId \in DOMAIN playlists : PlayPlaylist(playlistId)
    \/ \E playlistId \in DOMAIN playlists, trackId \in library : PlayFromPlaylist(playlistId, trackId)
    \/ \E albumId \in DOMAIN albums : PlayAlbum(albumId)
    \/ \E artist \in {trackObj[id].artist : id \in library} : PlayArtist(artist)
    \/ \E trackId \in library : AddToQueue(trackId)
    \/ ToggleShuffle
    \/ PlayNext
    \/ PlayPrevious
    \/ LoadedMetadata
    \/ Pause
    \/ BeginCycle
    \/ EndCycle

\* ------------------------------------------------------------------ track completion

\* toggleRepeat, lines 852-858: the next of ['none', 'all', 'one'].
RepeatStates == <<"none", "all", "one">>
ToggleRepeat ==
    /\ Played
    /\ ~cycle.on
    /\ repeat' = RepeatStates[((IndexOf(RepeatStates, repeat) + 1) % Len(RepeatStates)) + 1]
    /\ UNCHANGED <<libVars, taskVars, queue, shuffledQueue, currentIndex, currentTrackId,
                   isPlaying, shuffle, audioSrc, mediaPlaying, onloadedmetadata, cycle>>
    /\ UNCHANGED <<audioVars, ended, urls>>

\* play() without a track id, lines 383-397: with a current track the media
\* element is asked to play, which fails without a source and may fail with
\* one; isPlaying follows the outcome. Without a current track nothing is done.
resume ==
    IF currentTrackId # 0
    THEN /\ isPlaying' \in (IF audioSrc # NULL THEN BOOLEAN ELSE {FALSE})
         /\ mediaPlaying' = isPlaying'
    ELSE /\ isPlaying' = isPlaying
         /\ mediaPlaying' = FALSE

\* The click on playPauseBtn while paused, line 645.
Resume ==
    /\ Played
    /\ ~cycle.on
    /\ ~isPlaying
    /\ ~mediaPlaying
    /\ resume
    /\ UNCHANGED <<libVars, taskVars, queue, shuffledQueue, currentIndex, currentTrackId,
                   shuffle, repeat, audioSrc, onloadedmetadata, cycle>>
    /\ UNCHANGED <<audioVars, ended, urls>>

\* The tests of handleTrackEnd, lines 861 and 864.
NeverRepeatsOne == FALSE
RepeatsOne == repeat = "one"
StopsAtLast == currentIndex = Len(queue) - 1

StopsAtEnd == currentIndex = Len(queue) - 1 /\ repeat # "all"

\* The 'ended' event of the media element, line 661, and handleTrackEnd,
\* lines 860-869: the element has stopped at the end of its source.
handleTrackEnd ==
    /\ ~cycle.on
    /\ mediaPlaying
    /\ IF RepeatsOne
       THEN /\ resume
            /\ ended' = "restarted"
            /\ UNCHANGED <<currentIndex, currentTrackId, audioSrc, onloadedmetadata,
                           settings, dbSettings, failures>>
       ELSE IF StopsAtEnd
       THEN /\ isPlaying' = FALSE
            /\ mediaPlaying' = FALSE
            /\ ended' = "stopped"
            /\ UNCHANGED <<currentIndex, currentTrackId, audioSrc, onloadedmetadata,
                           settings, dbSettings, failures>>
       ELSE /\ playNextWhile(FALSE)
            /\ isPlaying' = isPlaying
            /\ ended' = "advanced"
    /\ UNCHANGED <<library, trackObj, albums, playlists, assets, dbTracks, dbAssets, dbAlbums,
                   dbPlaylists, nextId, taskVars, queue, shuffledQueue, shuffle, repeat, cycle>>
    /\ UNCHANGED audioVars
    /\ Observed(IF ~RepeatsOne /\ ~StopsAtEnd /\ Len(queue) # 0
                THEN played(urls, At(ActiveQueue, currentIndex'))
                ELSE urls)

\* The 'ended' event, counted among the playback handlers started.
TrackEnd == Played /\ handleTrackEnd

Completion ==
    \/ ToggleRepeat
    \/ Resume
    \/ TrackEnd

\* ------------------------------------------------------------------ volume
\* saveSettings(), lines 170-172, for the settings object as the handler
\* left it; no caller below awaits it.
saveSettings(data) ==
    \E ok \in BOOLEAN :
        /\ MayFail(ok)
        /\ Outcome(ok)
        /\ dbSettings' = IF ok THEN data ELSE dbSettings

\* The gain stage and the settings, as setVolume and toggleMute use them.
Audio == [gain |-> gainNode, settings |-> settings]

\* setVolume that remembers every volume, 0 too, as lastVolume.
setVolumeAny(a, volume, isMuteToggle) ==
    [gain |-> volume,
     settings |-> IF isMuteToggle
                  THEN [a.settings EXCEPT !.volume = volume]
                  ELSE [a.settings EXCEPT !.volume = volume,
                                          !.isMuted = (volume = 0),
                                          !.lastVolume = volume]]

\* setVolume(volume, isMuteToggle), lines 477-488 (gainNode exists).
setVolume(a, volume, isMuteToggle) ==
    [gain |-> volume,
     settings |-> IF isMuteToggle
                  THEN [a.settings EXCEPT !.volume = volume]
                  ELSE [a.settings EXCEPT !.volume = volume,
                                          !.isMuted = (volume = 0),
                                          !.lastVolume = IF volume > 0 THEN volume ELSE @]]

\* toggleMute that unmutes to the default volume.
toggleMuteToDefault(a) ==
    LET flipped == [a EXCEPT !.settings.isMuted = ~@]
    IN setVolume(flipped, IF flipped.settings.isMuted THEN 0 ELSE DefaultVolume, TRUE)

\* toggleMute(), lines 490-496, before its saveSettings.
toggleMute(a) ==
    LET flipped == [a EXCEPT !.settings.isMuted = ~@]
    IN IF flipped.settings.isMuted
       THEN setVolume(flipped, 0, TRUE)
       ELSE setVolume(flipped,
                      IF flipped.settings.lastVolume > 0
                      THEN flipped.settings.lastVolume ELSE DefaultVolume,
                      TRUE)

\* The volume slider's input event, line 656.
SetVolume(volume) ==
    /\ drag = 0
    /\ LET a == setVolume(Audio, volume, FALSE)
       IN /\ volume # settings.volume
          /\ gainNode' = a.gain
          /\ settings' = a.settings
    /\ mutes' = NoMutes
    /\ UNCHANGED <<library, trackObj, albums, playlists, assets, dbTracks, dbAssets, dbAlbums,
                   dbPlaylists, dbSettings, nextId, failures, taskVars, playVars, ended, urls,
                   eqNodes, drag, manual, audioContext>>

\* The click on volumeBtn, line 650: toggleMute(), lines 490-498.
ToggleMute ==
    /\ drag = 0
    /\ LET a == toggleMute(Audio)
       IN /\ gainNode' = a.gain
          /\ settings' = a.settings
    /\ saveSettings(settings')
    /\ mutes' = IF mutes.calls = 1
                THEN [mutes EXCEPT !.calls = 2]
                ELSE [calls |-> 1, gain |-> gainNode, volume |-> settings.volume,
                      isMuted |-> settings.isMuted]
    /\ UNCHANGED <<library, trackObj, albums, playlists, assets, dbTracks, dbAssets, dbAlbums,
                   dbPlaylists, nextId, taskVars, playVars, ended, urls, eqNodes, drag, manual,
                   audioContext>>

Volume ==
    \/ \E volume \in SliderValues : SetVolume(volume)
    \/ ToggleMute

\* ------------------------------------------------------------------ equalizer
\* The band gains and the settings' customEq, as setEQGain uses them.
Eq == [nodes |-> eqNodes, customEq |-> settings.customEq]

\* setEQGain with the band's node left alone.
setCustomGain(e, bandIndex, gain) ==
    [e EXCEPT !.customEq = [e.customEq EXCEPT ![bandIndex] = gain]]

\* setEQGain(bandIndex, gain), lines 1011-1016; bands are counted from 1 here.
setEQGain(e, bandIndex, gain) ==
    IF bandIndex \in 1..Len(e.nodes)
    THEN [nodes |-> [e.nodes EXCEPT ![bandIndex] = gain],
          customEq |-> [e.customEq EXCEPT ![bandIndex] = gain]]
    ELSE e

PresetNames == {"flat", "rock", "pop", "jazz", "classical", "bass", "custom"}

\* The presets object of applyEQPreset, lines 1019-1027, and the lookup of
\* line 1028.
Presets(customEq, presetName) ==
    CASE presetName = "flat" -> <<0, 0, 0, 0, 0, 0, 0, 0, 0, 0>>
      [] presetName = "rock" -> <<5, 3, 1, -2, -1, 1, 3, 4, 5, 5>>
      [] presetName = "pop" -> <<-1, 1, 3, 4, 3, 1, -1, -1, 0, 0>>
      [] presetName = "jazz" -> <<4, 2, 1, 2, -1, -1, 0, 1, 3, 4>>
      [] presetName = "classical" -> <<-1, 0, 0, 0, 0, 0, 0, 2, 3, 4>>
      [] presetName = "bass" -> <<6, 5, 4, 2, 0, -1, -2, -2, -3, -3>>
      [] presetName = "custom" -> customEq
      [] OTHER -> <<0, 0, 0, 0, 0, 0, 0, 0, 0, 0>>

\* preset.forEach((gain, index) => this.setEQGain(index, gain)), line 1029,
\* from band index on.
RECURSIVE ForEachGain(_, _, _)
ForEachGain(e, preset, index) ==
    IF index > Len(preset) THEN e
    ELSE ForEachGain(setEQGain(e, index, preset[index]), preset, index + 1)

\* applyEQPreset(presetName, save), lines 1018-1030, before its saveSettings.
applyEQPreset(e, presetName) == ForEachGain(e, Presets(e.customEq, presetName), 1)

\* The change event of eqPresetSelect, line 682: applyEQPreset(name).
ApplyEQPreset(presetName) ==
    /\ drag = 0
    /\ LET e == applyEQPreset(Eq, presetName)
       IN /\ eqNodes' = e.nodes
          /\ settings' = [settings EXCEPT !.customEq = e.customEq, !.eqPreset = presetName]
    /\ saveSettings(settings')
    /\ UNCHANGED <<library, trackObj, albums, playlists, assets, dbTracks, dbAssets, dbAlbums,
                   dbPlaylists, nextId, taskVars, playVars, ended, urls, gainNode, drag, manual, mutes,
                   audioContext>>

\* mousedown on a knob: startDrag, lines 954-965.
StartDrag(knob) ==
    /\ drag = 0
    /\ drag' = knob
    /\ UNCHANGED <<libVars, taskVars, playVars, ended, urls, gainNode, eqNodes, manual, mutes,
                   audioContext>>

\* mousemove while a knob is dragged: drag, lines 967-991, to the angle
\* whose gain is given.
Drag(gain) ==
    /\ drag # 0
    /\ LET e == setEQGain(Eq, drag, gain)
       IN /\ eqNodes' = e.nodes
          /\ settings' = [settings EXCEPT !.customEq = e.customEq, !.eqPreset = "custom"]
    /\ manual' = [manual EXCEPT ![drag] = [set |-> TRUE, gain |-> gain]]
    /\ UNCHANGED <<library, trackObj, albums, playlists, assets, dbTracks, dbAssets, dbAlbums,
                   dbPlaylists, dbSettings, nextId, failures, taskVars, playVars, ended, urls,
                   gainNode, drag, mutes, audioContext>>

\* mouseup: stopDrag, lines 993-998.
StopDrag ==
    /\ drag # 0
    /\ drag' = 0
    /\ saveSettings(settings)
    /\ UNCHANGED <<library, trackObj, albums, playlists, assets, settings, dbTracks, dbAssets,
                   dbAlbums, dbPlaylists, nextId, taskVars, playVars, ended, urls, gainNode, eqNodes, manual, mutes,
                   audioContext>>

\* setupAudioContext, lines 187-206: the graph is built (the Web Audio calls
\* of lines 189-198 succeed), then setVolume(settings.volume) and
\* applyEQPreset(settings.eqPreset, false) for the settings loaded.
setupAudioContext(loaded) ==
    LET a == setVolume([gain |-> 100, settings |-> loaded], loaded.volume, FALSE)
        e == applyEQPreset([nodes |-> Flat, customEq |-> a.settings.customEq],
                           a.settings.eqPreset)
    IN [gain |-> a.gain, nodes |-> e.nodes,
        settings |-> [a.settings EXCEPT !.customEq = e.customEq]]

Equalizer ==
    \/ \E presetName \in PresetNames : ApplyEQPreset(presetName)
    \/ \E knob \in Knobs : StartDrag(knob)
    \/ \E gain \in Gains : Drag(gain)
    \/ StopDrag

\* ------------------------------------------------------------------ album and artist editors
\* Form contents of the album modal, and the names typed in the artist modal.
AlbumEdits ==
    { [name |-> "c", artist |-> "b", cover |-> FALSE],
      [name |-> "C", artist |-> "X", cover |-> TRUE] }
ArtistNames == {"", "B", "X"}

\* The first n elements of a sequence, as a set.
FirstOf(s, n) == { s[i] : i \in (1..n) \cap (1..Len(s)) }

\* The keys of this.albums in the order the Map lists them.
NoAlbumKeys == <<>>
AlbumKeys == SortedSeq(DOMAIN albums)

\* saveAlbumDetails(), lines 1544-1582, for the album the modal was opened on
\* and the form contents edit. Its puts are awaited one after the other: the
\* cover asset (1), the album (2), then each track of the album that carried
\* the old name and artist (3, 4, ...). failAt is the put the store rejects
\* (0: none); the handler throws out of that await.
SaveAlbumDetails(albumId, edit) ==
    /\ Started
    /\ albumId \in DOMAIN albums
    /\ LET old == albums[albumId]
           coverAssetId == IF old.coverAssetId # NULL THEN old.coverAssetId ELSE CoverId(albumId)
           ids == SelectSeq(old.trackIds,
                            LAMBDA id : /\ id \in library
                                        /\ trackObj[id].album = old.name
                                        /\ trackObj[id].artist = old.artist)
       IN \E failAt \in 0..(Len(ids) + 2) :
            LET stored == edit.cover /\ failAt # 1
                reachedAlbum == ~edit.cover \/ failAt # 1
                reachedTracks == reachedAlbum /\ failAt # 2
                album == [old EXCEPT !.name = edit.name, !.artist = edit.artist,
                                     !.coverAssetId = IF stored THEN coverAssetId ELSE @]
                changed == IF ~reachedTracks THEN {}
                           ELSE IF failAt = 0 THEN Range(ids) ELSE FirstOf(ids, failAt - 2)
                saved == IF ~reachedTracks THEN {}
                         ELSE IF failAt = 0 THEN Range(ids) ELSE FirstOf(ids, failAt - 3)
            IN /\ failAt = 1 => edit.cover
               /\ MayFail(failAt = 0)
               /\ Outcome(failAt = 0)
               /\ albums' = [albums EXCEPT ![albumId] = album]
               /\ dbAssets' = IF stored THEN dbAssets \cup {coverAssetId} ELSE dbAssets
               /\ assets' = IF stored THEN assets \cup {coverAssetId} ELSE assets
               /\ dbAlbums' = IF reachedTracks THEN MapSet(dbAlbums, albumId, album) ELSE dbAlbums
               /\ trackObj' = [id \in DOMAIN trackObj |->
                                 IF id \in changed
                                 THEN [trackObj[id] EXCEPT !.album = edit.name, !.artist = edit.artist]
                                 ELSE trackObj[id]]
               /\ dbTracks' = [id \in (DOMAIN dbTracks) \cup saved |->
                                 IF id \in saved THEN trackObj'[id] ELSE dbTracks[id]]
    /\ UNCHANGED <<library, playlists, settings, dbPlaylists, dbSettings, nextId,
                   imp, del, sm, pending, raced, playVars>>
    /\ UNCHANGED <<audioVars, ended, urls>>

\* saveArtistDetails(), lines 1584-1616, for the artist the modal was opened
\* on and the name typed, the user confirming at line 1594. An empty or
\* unchanged name returns at line 1591 and changes nothing. The tracks of the
\* artist are put one after the other, then the albums; failAt is the put the
\* store rejects (0: none).
SaveArtistDetails(originalName, newName) ==
    /\ Started
    /\ newName # "" /\ newName # originalName
    /\ LET trackIds == SelectSeq(LibraryKeys, LAMBDA id : trackObj[id].artist = originalName)
           albumIds == SelectSeq(AlbumKeys, LAMBDA id : albums[id].artist = originalName)
       IN \E failAt \in 0..(Len(trackIds) + Len(albumIds)) :
            LET changedTracks == IF failAt = 0 THEN Range(trackIds) ELSE FirstOf(trackIds, failAt)
                savedTracks == IF failAt = 0 THEN Range(trackIds) ELSE FirstOf(trackIds, failAt - 1)
                changedAlbums == IF failAt = 0 THEN Range(albumIds)
                                 ELSE FirstOf(albumIds, failAt - Len(trackIds))
                savedAlbums == IF failAt = 0 THEN Range(albumIds)
                               ELSE FirstOf(albumIds, failAt - Len(trackIds) - 1)
            IN /\ MayFail(failAt = 0)
               /\ Outcome(failAt = 0)
               /\ trackObj' = [id \in DOMAIN trackObj |->
                                 IF id \in changedTracks
                                 THEN [trackObj[id] EXCEPT !.artist = newName]
                                 ELSE trackObj[id]]
               /\ dbTracks' = [id \in (DOMAIN dbTracks) \cup savedTracks |->
                                 IF id \in savedTracks THEN trackObj'[id] ELSE dbTracks[id]]
               /\ albums' = [id \in DOMAIN albums |->
                               IF id \in changedAlbums
                               THEN [albums[id] EXCEPT !.artist = newName]
                               ELSE albums[id]]
               /\ dbAlbums' = [id \in (DOMAIN dbAlbums) \cup savedAlbums |->
                                 IF id \in savedAlbums THEN albums'[id] ELSE dbAlbums[id]]
    /\ UNCHANGED <<library, playlists, assets, settings, dbAssets, dbPlaylists, dbSettings,
                   nextId, imp, del, sm, pending, raced, playVars>>
    /\ UNCHANGED <<audioVars, ended, urls>>

\* The names the artists view offers (updateArtistsDisplay, lines 1326-1332).
ArtistsShown == { trackObj[id].artist : id \in library }

Editors ==
    \/ \E albumId \in DOMAIN albums, edit \in AlbumEdits : SaveAlbumDetails(albumId, edit)
    \/ \E originalName \in ArtistsShown, newName \in ArtistNames :
          SaveArtistDetails(originalName, newName)

\* ------------------------------------------------------------------ restart
\* The page is loaded again: the constructor, loadDataFromDB (lines 145-168),
\* setupAudioContext and restorePlaybackState (lines 174-181), whose loadTrack
\* saves the settings. Handlers of the old page are gone, and so are the
\* object URLs of its document.
Restart ==
    /\ Started
    /\ library' = DOMAIN dbTracks
    /\ trackObj' = dbTracks
    /\ albums' = dbAlbums
    /\ playlists' = dbPlaylists
    /\ assets' = dbAssets
    /\ imp' = ImpIdle /\ del' = DelIdle /\ sm' = SmIdle /\ pending' = <<>> /\ raced' = 0
    /\ queue' = <<>> /\ shuffledQueue' = <<>> /\ currentIndex' = -1
    /\ isPlaying' = FALSE /\ shuffle' = FALSE /\ repeat' = "none" /\ cycle' = NoCycle
    /\ mediaPlaying' = FALSE
    /\ UNCHANGED plays
    /\ LET lastTrackId == dbSettings.lastTrackId
           resolves == lastTrackId # 0 /\ lastTrackId \in DOMAIN dbTracks
           loads == resolves /\ dbTracks[lastTrackId].fileAssetId \in dbAssets
       IN /\ currentTrackId' = IF resolves THEN lastTrackId ELSE 0
          /\ audioSrc' = IF loads THEN dbTracks[lastTrackId].fileAssetId ELSE NULL
          /\ onloadedmetadata' = IF loads
                                 THEN [set |-> TRUE, shouldPlay |-> FALSE]
                                 ELSE NoHandler
          /\ LET audio == setupAudioContext(dbSettings)
             IN /\ settings' = audio.settings
                /\ gainNode' = audio.gain
                /\ eqNodes' = audio.nodes
          /\ IF loads THEN saveSettings(settings')
                      ELSE UNCHANGED <<dbSettings, failures>>
          /\ LET page == [NoUrls EXCEPT !.on = TRUE]
                 grid == renderGrid(page, GridCovers(DOMAIN dbTracks, dbTracks, dbAssets))
                 source == IF loads THEN replaceSrc(grid, NULL) ELSE grid
             IN Observed(IF resolves
                         THEN renderPlayer(source,
                                           IF HasCover(dbTracks[lastTrackId], dbAssets)
                                           THEN 1 ELSE 0)
                         ELSE source)
    /\ drag' = 0
    /\ ended' = "no"
    /\ mutes' = NoMutes
    /\ audioContext' = Running
    /\ UNCHANGED <<dbTracks, dbAssets, dbAlbums, dbPlaylists, nextId, manual>>

\* ------------------------------------------------------------------ specifications
Next == Import \/ Delete \/ Metadata \/ Playlists \/ Theme \/ Restart
Spec == Init /\ [][Next]_vars

\* Imports and deletions only, with restarts.
NextImport == Import \/ Delete \/ Restart
SpecImport == Init /\ [][NextImport]_vars

\* A session opened on the library an earlier session left in the database:
\* two imported tracks of one album (one with an embedded cover, which the
\* album took over) and a playlist holding the first.
StoredTracks ==
    (1 :> [id |-> 1, artist |-> "B", album |-> "C", trackNumber |-> 2,
           fileAssetId |-> AssetId(1), coverAssetId |-> CoverId(1)])
    @@ (3 :> [id |-> 3, artist |-> "b", album |-> "c", trackNumber |-> 1,
              fileAssetId |-> AssetId(3), coverAssetId |-> NULL])
StoredAlbums ==
    (2 :> [id |-> 2, name |-> "C", artist |-> "B", trackIds |-> <<1, 3>>,
           coverAssetId |-> CoverId(1)])
StoredPlaylists ==
    (4 :> [id |-> 4, name |-> "mix", trackIds |-> <<1>>, coverAssetId |-> NULL])
StoredAssets == {AssetId(1), CoverId(1), AssetId(3)}

\* init() on a database holding stored: loadDataFromDB fills the Maps from
\* the stores; the ids below stored.nextId are in use.
LoadedWith(stored, context) ==
    /\ library = DOMAIN stored.tracks
    /\ trackObj = stored.tracks
    /\ albums = stored.albums
    /\ playlists = stored.playlists
    /\ assets = stored.assets
    /\ settings = DefaultSettings
    /\ dbTracks = stored.tracks
    /\ dbAssets = stored.assets
    /\ dbAlbums = stored.albums
    /\ dbPlaylists = stored.playlists
    /\ dbSettings = DefaultSettings
    /\ nextId = stored.nextId
    /\ failures = 0
    /\ ops = 0
    /\ imp = ImpIdle
    /\ del = DelIdle
    /\ sm = SmIdle
    /\ pending = <<>>
    /\ raced = 0
    /\ queue = <<>>
    /\ shuffledQueue = <<>>
    /\ currentIndex = -1
    /\ currentTrackId = 0
    /\ isPlaying = FALSE
    /\ shuffle = FALSE
    /\ repeat = "none"
    /\ audioSrc = NULL
    /\ onloadedmetadata = NoHandler
    /\ plays = 0
    /\ cycle = NoCycle
    /\ mediaPlaying = FALSE
    /\ gainNode = DefaultVolume
    /\ eqNodes = Flat
    /\ drag = 0
    /\ manual = NoManual
    /\ mutes = NoMutes
    /\ audioContext = context
    /\ ended = "no"
LoadedState(stored) == LoadedWith(stored, Running)
LoadedFrom(stored) == LoadedState(stored) /\ urls = NoUrls
Loaded(storedAssets) ==
    LoadedFrom([tracks |-> StoredTracks, albums |-> StoredAlbums, playlists |-> StoredPlaylists,
                assets |-> storedAssets, nextId |-> 5])
InitLoaded == Loaded(StoredAssets)

\* A smaller stored library: one imported track, its album, and a playlist
\* holding the track.
StoredSmall ==
    [tracks |-> (1 :> [id |-> 1, artist |-> "B", album |-> "C", trackNumber |-> 2,
                       fileAssetId |-> AssetId(1), coverAssetId |-> NULL]),
     albums |-> (2 :> [id |-> 2, name |-> "C", artist |-> "B", trackIds |-> <<1>>,
                       coverAssetId |-> NULL]),
     playlists |-> (3 :> [id |-> 3, name |-> "mix", trackIds |-> <<1>>, coverAssetId |-> NULL]),
     assets |-> {AssetId(1)},
     nextId |-> 4]
InitSmall == LoadedFrom(StoredSmall)

\* Imports and additions to playlists, interleaved.
NextLists ==
    \/ Import
    \/ \E playlistId \in DOMAIN playlists, trackId \in library :
          AddTrackToPlaylist(playlistId, trackId)
SpecLists == InitSmall /\ [][NextLists]_vars

NextPlay ==
    \/ Playback
    \/ (~cycle.on /\ Delete)
    \/ (~cycle.on /\ \E playlistId \in DOMAIN playlists, trackId \in library :
                        AddTrackToPlaylist(playlistId, trackId))
SpecPlay == InitLoaded /\ [][NextPlay]_vars

\* Playback to the end of tracks, on the stored library or on the one an
\* earlier session left when the store rejected the second track's file
\* after it had taken the track (the two writes of lines 286-287).
InitEnd == \E lost \in SUBSET {AssetId(3)} : Loaded(StoredAssets \ lost)
NextEnd == Playback \/ Completion
SpecEnd == InitEnd /\ [][NextEnd]_vars

\* A stored library of one imported track and its album; imports and the
\* album and artist editors.
StoredOne ==
    [tracks |-> (1 :> [id |-> 1, artist |-> "B", album |-> "C", trackNumber |-> 2,
                       fileAssetId |-> AssetId(1), coverAssetId |-> NULL]),
     albums |-> (2 :> [id |-> 2, name |-> "C", artist |-> "B", trackIds |-> <<1>>,
                       coverAssetId |-> NULL]),
     playlists |-> EmptyMap,
     assets |-> {AssetId(1)},
     nextId |-> 3]
InitOne == LoadedFrom(StoredOne)
NextEdit == Import \/ Editors
SpecEdit == InitOne /\ [][NextEdit]_vars

\* The mutations of the library run one at a time, each to its end before
\* the next starts, and the store rejects no request.
Alone(Handler) == Handler /\ failures' = failures /\ (NoTask \/ ops' = ops)
NextSeq ==
    \/ Alone(\E files \in Batches : ImportFiles(files))
    \/ Alone(ParseDone)
    \/ Alone(CoverSaved)
    \/ Alone(TrackSaved)
    \/ Alone(AssetSaved)
    \/ Alone(AlbumSaved)
    \/ Alone(DurationDone)
    \/ Alone(\E trackId \in library : DeleteTrack(trackId))
    \/ Alone(DelTrackDeleted)
    \/ Alone(DelFileDeleted)
    \/ Alone(DelCoverDeleted)
    \/ Alone(DelDone)
    \/ Alone(\E trackId \in library, edit \in MetaEdits : SaveMetadata(trackId, edit))
    \/ Alone(SmCoverSaved)
    \/ Alone(SmTrackSaved)
    \/ Alone(SmDone)
    \/ Alone(\E name \in PlaylistNames : CreatePlaylist(name))
    \/ Alone(\E playlistId \in DOMAIN playlists, trackId \in library :
                AddTrackToPlaylist(playlistId, trackId))
    \/ Alone(\E playlistId \in DOMAIN playlists : DeletePlaylist(playlistId))
    \/ Alone(\E playlistId \in DOMAIN playlists, name \in PlaylistNames, cover \in BOOLEAN :
                SavePlaylistDetails(playlistId, name, cover))
    \/ Alone(\E albumId \in DOMAIN albums, edit \in AlbumEdits : SaveAlbumDetails(albumId, edit))
    \/ Alone(\E originalName \in ArtistsShown, newName \in ArtistNames :
                SaveArtistDetails(originalName, newName))
SpecSeq == InitOne /\ [][NextSeq]_vars

\* The handlers that write the queue: those that replace it, add-to-queue,
\* the shuffle button and deleteTrack.
NextQueue ==
    \/ \E trackId \in library : PlayFromLibrary(trackId)
    \/ \E playlistId \in DOMAIN playlists : PlayPlaylist(playlistId)
    \/ \E albumId \in DOMAIN albums : PlayAlbum(albumId)
    \/ \E trackId \in library : AddToQueue(trackId)
    \/ ToggleShuffle
    \/ Delete
SpecQueue == InitLoaded /\ [][NextQueue]_vars

\* The stored library with its object URLs observed from the first rendering
\* of the tracks grid (line 167); the handlers that queue and load tracks.
StoredAll ==
    [tracks |-> StoredTracks, albums |-> StoredAlbums, playlists |-> StoredPlaylists,
     assets |-> StoredAssets, nextId |-> 5]
InitUrls ==
    /\ LoadedState(StoredAll)
    /\ urls = renderGrid([NoUrls EXCEPT !.on = TRUE],
                         GridCovers(DOMAIN StoredTracks, StoredTracks, StoredAssets))
NextUrls ==
    \/ \E trackId \in library : PlayFromLibrary(trackId)
    \/ \E trackId \in library : AddToQueue(trackId)
    \/ PlayNext
    \/ LoadedMetadata
    \/ Delete
SpecUrls == InitUrls /\ [][NextUrls]_vars

\* Tracks queued from the library view, played to their end, and deleted.
NextEndDel ==
    \/ \E trackId \in library : PlayFromLibrary(trackId)
    \/ LoadedMetadata
    \/ Delete
    \/ TrackEnd
SpecEndDel == InitLoaded /\ [][NextEndDel]_vars

\* Tracks queued, played and deleted by the user, who may stop at any point;
\* a source the element was given loads, and a source that is playing
\* reaches its end, whatever the user has done before.
TrackEnds == handleTrackEnd /\ plays' = plays
NextStop ==
    \/ \E trackId \in library : PlayFromLibrary(trackId)
    \/ \E playlistId \in DOMAIN playlists : PlayPlaylist(playlistId)
    \/ \E trackId \in library : AddToQueue(trackId)
    \/ Delete
    \/ LoadedMetadata
    \/ TrackEnds
SpecStop == InitLoaded /\ [][NextStop]_vars /\ WF_vars(LoadedMetadata) /\ WF_vars(TrackEnds)

\* Tracks clicked in the library view of a page whose audio context starts
\* suspended or running. The calls resumed by one settling of resume() go on
\* one after the other, before any other event is handled.
InitResume ==
    \E context \in {Running, Suspended} :
        /\ LoadedWith([tracks |-> StoredTracks, albums |-> StoredAlbums,
                       playlists |-> StoredPlaylists, assets |-> StoredAssets, nextId |-> 5],
                      context)
        /\ urls = NoUrls
BetweenEvents == audioContext.state = "running" => ~Resuming(audioContext)
NextResume ==
    \/ \E trackId \in library : BetweenEvents /\ PlayFromLibrary(trackId)
    \/ ResumeSettled
    \/ BetweenEvents /\ LoadedMetadata
SpecResume == InitResume /\ [][NextResume]_vars

\* The volume control and the mute button, with a preset change as another
\* handler that saves the settings, and restarts.
NextVolume == Volume \/ (\E presetName \in {"flat", "rock"} : ApplyEQPreset(presetName)) \/ Restart
SpecVolume == Init /\ [][NextVolume]_vars

\* The equalizer, with restarts.
NextEq == Equalizer \/ Restart
SpecEq == Init /\ [][NextEq]_vars

\* ------------------------------------------------------------------ properties
\* The records that refer to assets, in the index and in the store.
IndexRefs ==
    {trackObj[id].fileAssetId : id \in library}
    \cup {trackObj[id].coverAssetId : id \in library}
    \cup {albums[a].coverAssetId : a \in DOMAIN albums}
    \cup {playlists[p].coverAssetId : p \in DOMAIN playlists}
    \cup {settings.backgroundAssetId}
StoreRefs ==
    {dbTracks[id].fileAssetId : id \in DOMAIN dbTracks}
    \cup {dbTracks[id].coverAssetId : id \in DOMAIN dbTracks}
    \cup {dbAlbums[a].coverAssetId : a \in DOMAIN dbAlbums}
    \cup {dbPlaylists[p].coverAssetId : p \in DOMAIN dbPlaylists}
    \cup {dbSettings.backgroundAssetId}
\* The Library Index: the records of the four Maps.
Index == <<library, [id \in library |-> trackObj[id]], albums, playlists, assets>>

\* C1: when deleteTrack(id) returns, id is in no Playlist's trackIds, in no
\* Album's trackIds, and in neither the queue nor the shuffled order.
C1_DeleteCascades ==
    [][(del.pc = "display" /\ del'.pc = "idle") =>
         /\ \A p \in DOMAIN playlists' : ~Includes(playlists'[p].trackIds, del.trackId)
         /\ \A a \in DOMAIN albums' : ~Includes(albums'[a].trackIds, del.trackId)
         /\ ~Includes(queue', del.trackId)
         /\ ~Includes(shuffledQueue', del.trackId)]_vars

\* C2: under any interleaving of importFiles and deleteTrack, with rejected
\* store writes and restarts, every Track of the index has a fileAssetId that
\* is an Asset of the index.
C2_TracksHaveAsset == \A id \in library : trackObj[id].fileAssetId \in assets

\* C3: whenever no deleteTrack is in progress, every id of the queue and of
\* the shuffled order is the id of a Track of the index.
C3_QueueResolves ==
    del.pc = "idle" => (Range(queue) \cup Range(shuffledQueue)) \subseteq library

\* C4: every coverAssetId a Track, Album or Playlist of the index holds is an
\* Asset of the index; deleteTrack removes no cover an Album still refers to.
C4_CoversResolve ==
    /\ \A id \in library : trackObj[id].coverAssetId \in assets \cup {NULL}
    /\ \A a \in DOMAIN albums : albums[a].coverAssetId \in assets \cup {NULL}
    /\ \A p \in DOMAIN playlists : playlists[p].coverAssetId \in assets \cup {NULL}

\* C5: when deleteTrack(id) returns for the track that was the current one
\* when it was called, isPlaying is false and id is no longer the current track.
C5_DeleteStopsPlayback ==
    [][(del.pc = "display" /\ del'.pc = "idle" /\ del.current) =>
         (isPlaying' = FALSE /\ currentTrackId' # del.trackId)]_vars

\* C6: an import of one file that ends with success has added exactly one
\* Track to the index and one to the store, and the Track's id is in exactly
\* one Album, also when the structured path failed part-way.
C6_ImportAddsOneTrack ==
    [][(/\ imp.pc = "albumSaved" /\ ~imp.err /\ imp'.pc = "idle"
        /\ Len(imp.files) = 1
        /\ del.pc = "idle" /\ imp.track.id \in library) =>
         /\ Cardinality(library' \ imp.libBefore) = 1
         /\ Cardinality((DOMAIN dbTracks') \ imp.dbBefore) = 1
         /\ Cardinality({a \in DOMAIN albums' : Includes(albums'[a].trackIds, imp.track.id)}) = 1]_vars

\* C7: once the handlers have ended, every Asset of the index and of the
\* store is referred to by a Track, an Album, a Playlist or the theme
\* background setting.
C7_NoOrphanAssets ==
    NoTask => (assets \subseteq IndexRefs /\ dbAssets \subseteq StoreRefs)

\* C8: a step in which the durable write of the album update of an import, of
\* addTrackToPlaylist, of saveMetadata or of savePlaylistDetails is rejected
\* leaves the index (for the import, its albums) as it was.
C8_RejectedWriteKeepsIndex ==
    [][failures' # failures =>
         /\ (imp.pc = "assetSaved" /\ imp'.pc = "albumSaved") => albums' = albums
         /\ (sm' # sm \/ (UNCHANGED <<imp, del, sm, nextId, settings>>)) => Index' = Index]_vars

\* C9: deleteTrack(id) called while saveMetadata for id was suspended at a
\* store await: once both have ended, the Track is in neither the index nor
\* the store.
C9_DeleteWinsOverEdit ==
    (raced # 0 /\ sm.pc = "idle" /\ del.pc = "idle") =>
        (raced \notin library /\ raced \notin DOMAIN dbTracks)

\* C10 as stated: after len(queue) calls of playNext() on a queue of playable
\* tracks with currentIndex inside it, currentIndex and currentTrackId are
\* what they were before the calls.
C10_CycleReturns ==
    (cycle.on /\ cycle.calls = Len(queue)) =>
        (currentIndex = cycle.index /\ currentTrackId = cycle.trackId)

\* C10 amended: the same, for a run that starts with the current track at
\* currentIndex of the active order (the shuffled order when shuffle is on).
C10_AlignedCycleReturns ==
    (cycle.on /\ cycle.calls = Len(queue) /\ cycle.aligned) =>
        (currentIndex = cycle.index /\ currentTrackId = cycle.trackId)
\* Such a run has ended: two tracks, shuffle on, back at its starting track.
C10_Witness ==
    /\ cycle.on /\ cycle.calls = Len(queue) /\ cycle.aligned
    /\ shuffle /\ Len(queue) = 2 /\ cycle.trackId # 0

\* C11: a handler that calls setQueueAndPlay(trackIds, startId) leaves the
\* queue equal to trackIds, currentIndex at the position of startId in the
\* active order (the shuffled order when shuffle is on; 0 when startId is not
\* in it) and the id at that position as currentTrackId; a playNext() moves
\* a currentIndex inside the queue to the next position, from the last one to
\* the first.
C11_QueueSetAndAdvanced ==
    [][LET Begun(trackIds, startId) ==
               LET active == IF shuffle' THEN shuffledQueue' ELSE queue'
                   position == IndexOf(active, startId)
               IN /\ queue' = trackIds
                  /\ currentIndex' = (IF position = -1 THEN 0 ELSE position)
                  /\ currentTrackId' = At(active, currentIndex')
       IN /\ \A trackId \in library :
               PlayFromLibrary(trackId) => Begun(LibraryKeys, trackId)
          /\ \A playlistId \in DOMAIN playlists :
               PlayPlaylist(playlistId) =>
                   Begun(playlists[playlistId].trackIds, playlists[playlistId].trackIds[1])
          /\ \A playlistId \in DOMAIN playlists, trackId \in library :
               PlayFromPlaylist(playlistId, trackId) =>
                   Begun(playlists[playlistId].trackIds, trackId)
          /\ \A albumId \in DOMAIN albums :
               PlayAlbum(albumId) =>
                   Begun(SortByTrackNumber(albums[albumId].trackIds),
                           SortByTrackNumber(albums[albumId].trackIds)[1])
          /\ \A artist \in {trackObj[id].artist : id \in library} :
               PlayArtist(artist) =>
                   Begun(ArtistTrackIds(artist), ArtistTrackIds(artist)[1])
          /\ (PlayNext /\ currentIndex \in 0..(Len(queue) - 1)) =>
               currentIndex' = (IF currentIndex = Len(queue) - 1 THEN 0 ELSE currentIndex + 1)
      ]_vars

\* C12: when the playing track ends and repeat is not 'one': at the last
\* position of the active order with repeat not 'all', isPlaying becomes false
\* and currentIndex stays; otherwise the step is the one playNext() takes
\* (with repeat 'all' at the last position, currentIndex becomes 0).
C12_CompletionStopsOrAdvances ==
    [][(TrackEnd /\ repeat # "one") =>
          IF currentIndex = Len(ActiveQueue) - 1 /\ repeat # "all"
          THEN isPlaying' = FALSE /\ currentIndex' = currentIndex
          ELSE /\ playNextWhile(FALSE)
               /\ (currentIndex = Len(ActiveQueue) - 1 /\ Len(queue) # 0) => currentIndex' = 0
               /\ (currentIndex \in 0..(Len(ActiveQueue) - 2)) => currentIndex' = currentIndex + 1
      ]_vars
\* A track ended at the last of two positions with repeat 'all' and the
\* first one was loaded.
C12_Witness ==
    /\ ended = "advanced" /\ repeat = "all" /\ Len(queue) = 2
    /\ currentIndex = 0 /\ currentTrackId = At(ActiveQueue, 0) /\ onloadedmetadata.set

\* C13: when the playing track ends with repeat 'one', currentTrackId,
\* currentIndex and the loaded source are what they were, and once the media
\* element plays again isPlaying is true.
C13_RepeatOneRestarts ==
    [][(TrackEnd /\ repeat = "one") =>
          /\ currentTrackId' = currentTrackId
          /\ currentIndex' = currentIndex
          /\ audioSrc' = audioSrc
          /\ onloadedmetadata' = onloadedmetadata
          /\ mediaPlaying' => isPlaying'
      ]_vars
\* The first of two queued tracks ended with repeat 'one' and plays again.
C13_Witness ==
    /\ ended = "restarted" /\ repeat = "one" /\ Len(queue) = 2 /\ currentIndex = 0
    /\ currentTrackId = At(ActiveQueue, 0) /\ mediaPlaying /\ isPlaying

\* C14: a step of play(id), playNext or playPrevious that hands loadTrack a
\* Track of the library whose audio asset is not in the asset index leaves
\* currentTrackId, the loaded source, isPlaying and the persisted lastTrackId
\* as they were.
C14_FailedLoadKeepsState ==
    [][\A trackId \in library :
          (/\ trackObj[trackId].fileAssetId \notin assets
           /\ \/ PlayFromLibrary(trackId)
              \/ PlayNext /\ trackId = At(ActiveQueue, currentIndex')
              \/ PlayPrevious /\ trackId = At(ActiveQueue, currentIndex'))
          => /\ currentTrackId' = currentTrackId
             /\ audioSrc' = audioSrc
             /\ isPlaying' = isPlaying
             /\ dbSettings'.lastTrackId = dbSettings.lastTrackId
      ]_vars

\* C15: a step of play(id), playNext, playPrevious or of the advance on a
\* track's end whose track is not in the library, or has no audio asset in
\* the asset index, ends with isPlaying false.
C15_FailedPlayPauses ==
    [][LET trackId == At(IF shuffle' THEN shuffledQueue' ELSE queue', currentIndex')
           Unresolved == trackId \notin library \/ trackObj[trackId].fileAssetId \notin assets
           Advances == TrackEnd /\ repeat # "one"
                       /\ ~(currentIndex = Len(queue) - 1 /\ repeat # "all")
       IN (/\ currentIndex' \in 0..(Len(queue') - 1)
           /\ Unresolved
           /\ \/ \E id \in library : PlayFromLibrary(id)
              \/ PlayNext
              \/ PlayPrevious
              \/ Advances)
          => isPlaying' = FALSE
      ]_vars

\* C16: applying the preset 'custom' sets every band the user dragged to the
\* gain of its last drag, whatever presets were applied and however often
\* the application was restarted since.
C16_CustomKeepsManualGain ==
    [][ApplyEQPreset("custom") =>
          \A i \in Knobs : manual[i].set => eqNodes'[i] = manual[i].gain
      ]_vars

\* C17: applying a named preset other than 'custom' leaves the ten band
\* gains equal to that preset's vector of the table (zeros for 'flat') and
\* the preset name equal to the name applied, whatever they were before.
C17_NamedPresetApplied ==
    [][\A presetName \in PresetNames \ {"custom"} :
          ApplyEQPreset(presetName) =>
              /\ eqNodes' = Presets(<<>>, presetName)
              /\ Len(eqNodes') = Bands
              /\ (presetName = "flat" => \A i \in 1..Bands : eqNodes'[i] = 0)
              /\ settings'.eqPreset = presetName
      ]_vars
\* 'rock' is in force after a knob had been dragged away from it.
C17_Witness ==
    /\ settings.eqPreset = "rock" /\ eqNodes = <<5, 3, 1, -2, -1, 1, 3, 4, 5, 5>>
    /\ manual[3].set /\ manual[3].gain = -12 /\ drag = 0

\* C18: after two toggleMute() calls in a row the gain stage value,
\* settings.volume and isMuted are what they were before the first.
C18_ToggleMuteTwiceRestores ==
    mutes.calls = 2 =>
        /\ gainNode = mutes.gain
        /\ settings.volume = mutes.volume
        /\ settings.isMuted = mutes.isMuted
\* Two toggles in a row from the volume 0.42 the slider had set.
C18_Witness ==
    /\ mutes.calls = 2 /\ mutes.volume = 42 /\ ~mutes.isMuted /\ settings.lastVolume = 42

\* C19: after a volume change from the volume control or the mute button,
\* the persisted settings hold the volume, the mute state and the last
\* volume the change produced.
C19_VolumePersisted ==
    [][((\E volume \in SliderValues : SetVolume(volume)) \/ ToggleMute) =>
          /\ dbSettings'.volume = settings'.volume
          /\ dbSettings'.isMuted = settings'.isMuted
          /\ dbSettings'.lastVolume = settings'.lastVolume
      ]_vars

\* C20: once a drag has moved a knob to a gain, the preset name is 'custom'
\* and the persisted settings hold that gain for the band and the preset
\* name 'custom'.
C20_ManualEditPersisted ==
    [][\A gain \in Gains :
          Drag(gain) =>
              /\ settings'.eqPreset = "custom"
              /\ dbSettings'.eqPreset = "custom"
              /\ dbSettings'.customEq[drag] = gain
      ]_vars

\* C30: when deleteTrack ends on a rejected store deletion, the track and
\* those of its audio asset and cover asset that the index holds are still in
\* the store and in the index, and the queue is what it was.
C30_FailedDeleteKeepsAll ==
    [][(del.pc \in {"trackDeleted", "fileDeleted", "coverDeleted"} /\ del.err /\ del'.pc = "idle") =>
          /\ del.trackId \in library'
          /\ del.trackId \in DOMAIN dbTracks'
          /\ \A assetId \in {DelTrack.fileAssetId, DelTrack.coverAssetId} \cap assets :
                assetId \in assets' \cap dbAssets'
          /\ queue' = queue
      ]_vars

\* C25: in every state the shuffled order holds the ids of the queue, each
\* as often as the queue does.
C25_ShuffledIsPermutation ==
    /\ Len(shuffledQueue) = Len(queue)
    /\ \A id \in Range(queue) \cup Range(shuffledQueue) :
          Cardinality({i \in 1..Len(queue) : queue[i] = id})
            = Cardinality({i \in 1..Len(shuffledQueue) : shuffledQueue[i] = id})
\* A deleteTrack has cut a queue of two down to one while shuffle was on.
C25_Witness ==
    /\ shuffle /\ Len(queue) = 1 /\ shuffledQueue = queue
    /\ del.pc = "display" /\ library = {queue[1]}

\* C26: no playlist and no album, in the index or in the store, holds a
\* track id twice.
C26_NoDuplicateTrackIds ==
    \A lists \in {playlists, albums, dbPlaylists, dbAlbums} :
        \A id \in DOMAIN lists :
            \A i, j \in 1..Len(lists[id].trackIds) :
                lists[id].trackIds[i] = lists[id].trackIds[j] => i = j
\* A track imported into the stored album was added to the stored playlist.
C26_Witness ==
    /\ \E id \in DOMAIN playlists : Len(playlists[id].trackIds) = 2 /\ dbPlaylists = playlists
    /\ \E id \in DOMAIN albums : Len(albums[id].trackIds) = 2 /\ dbAlbums = albums
    /\ imp.pc = "idle"

\* C28: no playlist of the index or of the store has a name that is empty
\* or only white space.
C28_NoBlankPlaylistName ==
    \A lists \in {playlists, dbPlaylists} :
        \A id \in DOMAIN lists : Trim(lists[id].name) # ""

\* C23: importFiles ends only after the last audio or video file of the
\* batch, with no record made for files of other types, and its caller then
\* holds a result whose totalCount is the number of those files and whose
\* importedCount is the number of tracks the index gained.
C23_ImportReportsCounts ==
    [][(imp.pc # "idle" /\ imp'.pc = "idle" /\ ops' = ops) =>
          LET success == imp.pc = "albumSaved" /\ ~imp.err
              result == importFilesResult(imp.successCount + (IF success THEN 1 ELSE 0),
                                          Len(imp.files))
          IN /\ imp.i = Len(imp.files)
             /\ \A i \in 1..Len(imp.files) : IsValidFile(imp.files[i])
             /\ result.defined
             /\ result.totalCount = Len(imp.files)
             /\ result.importedCount = Cardinality(library' \ imp.libBefore)
      ]_vars

\* C21: every track of the index is held by exactly one album with the
\* track's (album, artist) pair up to letter case, in the index and, under
\* the same id, in the store.
C21_OneAlbumPerPair ==
    \A id \in library :
        LET match == AlbumMatch(trackObj[id])
        IN /\ Cardinality(match) = 1
           /\ \A a \in match :
                 /\ Includes(albums[a].trackIds, id)
                 /\ a \in DOMAIN dbAlbums
                 /\ Includes(dbAlbums[a].trackIds, id)

\* C22: no two albums of the index have the same (name, artist) pair up to
\* letter case.
C22_AlbumKeysDistinct ==
    \A a, b \in DOMAIN albums :
        AlbumKey(albums[a].name, albums[a].artist) = AlbumKey(albums[b].name, albums[b].artist)
            => a = b

\* C27: when saveArtistDetails renames an artist to a different, non-empty
\* name in a run without a rejected store request and with no import under
\* way, then afterwards no track and no album of the index or the store has
\* the old artist, the tracks and albums that had it have the new one and
\* are otherwise as before, and every other record is unchanged.
C27_ArtistRenamed ==
    [][\A originalName \in ArtistsShown, newName \in ArtistNames :
         (SaveArtistDetails(originalName, newName) /\ failures' = 0 /\ imp.pc = "idle") =>
            LET Renamed(records) ==
                    [id \in DOMAIN records |->
                       IF records[id].artist = originalName
                       THEN [records[id] EXCEPT !.artist = newName]
                       ELSE records[id]]
                Listed(tracks) == [id \in library |-> tracks[id]]
            IN /\ \A id \in library' : trackObj'[id].artist # originalName
               /\ \A id \in DOMAIN dbTracks' : dbTracks'[id].artist # originalName
               /\ \A id \in DOMAIN albums' : albums'[id].artist # originalName
               /\ \A id \in DOMAIN dbAlbums' : dbAlbums'[id].artist # originalName
               /\ library' = library
               /\ Listed(trackObj') = Renamed(Listed(trackObj))
               /\ dbTracks' = Renamed(dbTracks)
               /\ albums' = Renamed(albums)
               /\ dbAlbums' = Renamed(dbAlbums)
               /\ UNCHANGED <<playlists, dbPlaylists, assets, dbAssets>>
      ]_vars
\* A state after an import and such a rename of "B" to "X": a track and an
\* album carry the new name in the index and in the store, beside a track of
\* another artist; the album editor, which stores a cover with that name, has
\* not run.
C27_Witness ==
    /\ failures = 0 /\ imp.pc = "idle"
    /\ \E id \in library : trackObj[id].artist = "X" /\ dbTracks[id].artist = "X"
    /\ \E id \in library : trackObj[id].artist = "b"
    /\ \E id \in DOMAIN albums : albums[id].artist = "X" /\ dbAlbums[id].artist = "X"
    /\ \A id \in library : trackObj[id].artist # "B"
    /\ \A id \in DOMAIN albums : albums[id].name = "C"
    /\ ops = 2 /\ Cardinality(library) = 2 /\ CoverId(2) \notin assets

\* C24: whenever no mutation is under way, the tracks, albums, playlists and
\* assets of the index are exactly the records of the store, field by field.
C24_IndexIsStore ==
    NoTask =>
        /\ library = DOMAIN dbTracks
        /\ \A id \in library : trackObj[id] = dbTracks[id]
        /\ albums = dbAlbums
        /\ playlists = dbPlaylists
        /\ assets = dbAssets
\* A state after three mutations have completed: a playlist was created, the
\* stored track added to it and then deleted.
C24_Witness ==
    /\ NoTask /\ ops = 3
    /\ library = {} /\ dbTracks = EmptyMap /\ assets = {}
    /\ \E id \in DOMAIN playlists : playlists[id].trackIds = <<1>> /\ dbPlaylists[id].trackIds = <<1>>

\* C29: every object URL not yet revoked is in use: at most one is the media
\* element's source, and the cover URLs are the ones the tracks grid, the
\* queue list, the player's cover and the media session now show.
C29_NoStaleObjectUrls ==
    urls.on =>
        /\ urls.media <= 1
        /\ urls.covers = urls.grid + urls.queue + urls.player + urls.session

\* C31: whenever the queue is not empty, currentIndex is at most
\* Len(queue) - 1: it never points past the end of the active order.
C31_IndexInQueue == Len(queue) # 0 => currentIndex <= Len(queue) - 1

\* C32: with shuffle off and repeat 'none', when the playing track ends after
\* deleteTrack has taken another track out of the library and the queue, the
\* player stops if no id follows the current track in the queue, and
\* otherwise goes on to the id that follows it.
C32_DeleteKeepsWhatFollows ==
    [][(/\ TrackEnd
        /\ ~shuffle /\ repeat = "none"
        /\ del.pc = "display" /\ del.trackId # currentTrackId
        /\ Includes(queue, currentTrackId)) =>
          LET position == IndexOf(queue, currentTrackId)
          IN IF position = Len(queue) - 1
             THEN /\ ended' = "stopped"
                  /\ isPlaying' = FALSE
                  /\ currentTrackId' = currentTrackId
             ELSE /\ ended' = "advanced"
                  /\ currentTrackId' = At(queue, position + 1)
      ]_vars

\* C33: whenever no handler is under way, every track of the index has its
\* id in the trackIds of exactly one album, and that album's (name, artist)
\* is the track's (album, artist) up to letter case.
C33_TrackInItsAlbum ==
    NoTask =>
        \A id \in library :
            LET holders == { a \in DOMAIN albums : Includes(albums[a].trackIds, id) }
            IN /\ Cardinality(holders) = 1
               /\ \A a \in holders :
                     AlbumKey(albums[a].name, albums[a].artist)
                         = AlbumKey(trackObj[id].album, trackObj[id].artist)

\* C36: the gain stage's value is settings.volume, isMuted is true exactly
\* when settings.volume is 0, and lastVolume is greater than 0.
C36_VolumeStateConsistent ==
    /\ gainNode = settings.volume
    /\ settings.isMuted <=> settings.volume = 0
    /\ settings.lastVolume > 0
\* The slider was moved to 42 and then to 0, and toggleMute brought 42 back.
C36_Witness ==
    /\ mutes.calls = 1 /\ mutes.isMuted /\ mutes.volume = 0 /\ mutes.gain = 0
    /\ gainNode = 42 /\ settings.volume = 42 /\ ~settings.isMuted /\ settings.lastVolume = 42
C34_EventuallyStops ==
    <>[]((/\ repeat = "none"
          /\ Len(queue) # 0
          /\ \A id \in Range(queue) : Playable(id)) => ~isPlaying)

====
